---- MODULE Spec2Model ----
(***************************************************************************)
(* The xds_cluster_manager load-balancing policy                           *)
(* (src/core/ext/filters/client_channel/lb_policy/xds/                     *)
(* xds_cluster_manager.cc): the XdsClusterManagerLb policy, its            *)
(* ClusterChild records with their delayed-removal timers, and the         *)
(* ClusterPicker it publishes.                                             *)
(*                                                                         *)
(* Every step of the model is one callback executed in the policy's work   *)
(* serializer (UpdateLocked, ShutdownLocked, ExitIdleLocked,               *)
(* ResetBackoffLocked, Helper::UpdateState, OnDelayedRemovalTimerLocked),  *)
(* or the expiry of a grpc_timer in the timer subsystem.  A callback       *)
(* includes the reports the child policies make through their helpers      *)
(* before the call that reached them returns.  Cluster names are the       *)
(* integers 1..NumClusters,                                                *)
(* ClusterChild objects are numbered in the order of their construction,   *)
(* and a child picker is an opaque token.                                  *)
(***************************************************************************)
EXTENDS Integers, Sequences, FiniteSets, TLC

\* ---------------------------------------------------------------- bounds
NumClusters == 2
NumPickers == 1
MaxObjs == 2
MaxInFlight == 2
NumTokens == 2
MaxWrappers == 6
MaxHeld == 3
MaxRefs == 4
MaxReports == 4

\* ------------------------------------------------------------- constants
NullPicker == 0
QueuePicker == -1
NullChild == 0

Names == 1..NumClusters
Pickers == 1..NumPickers

\* The child pickers told apart where the identity of picker objects is
\* followed (wrappers, pickers_held), and the routing attributes of calls:
\* the cluster names and one value that names no cluster.
Tokens == 1..NumTokens
Attributes == 1..(NumClusters + 1)

IDLE == "IDLE"
CONNECTING == "CONNECTING"
READY == "READY"
TRANSIENT_FAILURE == "TRANSIENT_FAILURE"
SHUTDOWN == "SHUTDOWN"

\* grpc_connectivity_state: every value the type of Helper::UpdateState's
\* argument admits.
ConnectivityStates == {IDLE, CONNECTING, READY, TRANSIENT_FAILURE, SHUTDOWN}

\* The states a child policy reports through its helper under the contract
\* of load-balancing policies (SHUTDOWN is never reported; line 347 relies
\* on it).
ContractStates == {IDLE, CONNECTING, READY, TRANSIENT_FAILURE}

\* The configurations the parser can return: a non-empty cluster map.  The
\* per-cluster child config is opaque to the policy and is not modelled; a
\* configuration is the key set of its cluster_map.  The empty set stands for
\* config_ == nullptr (before the first update).
ClusterMaps == (SUBSET Names) \ {{}}
NullConfig == {}

\* What a child may do while an update is forwarded to it: report nothing, or
\* report one (state, picker) pair through its helper.
NoReport == [state |-> "NONE", picker |-> NullPicker]
ReportsOf(states) == [state : states, picker : Pickers]
Reports == ReportsOf(ContractStates)
SyncReports == Reports \cup {NoReport}

\* The channel before the first UpdateState reaches it.
NoPublication == [state |-> "NONE", status |-> "NONE", picker |-> <<>>]

\* ParseLoadBalancingConfig has not been given a value, and has returned
\* nothing.
NoJson == [type |-> "NONE"]
NotParsed == [kind |-> "NONE"]

\* No child has made a request through its Helper yet.
NoCall == [op |-> "NONE"]

\* No Pick was made in the last step.
NoPick == [attr |-> 0, cluster_map |-> <<>>, result |-> [type |-> "NONE"]]

VARIABLES
  config_,              \* XdsClusterManagerLb::config_ (keys of cluster_map)
  shutting_down_,       \* XdsClusterManagerLb::shutting_down_
  update_in_progress_,  \* XdsClusterManagerLb::update_in_progress_
  children_,            \* XdsClusterManagerLb::children_: name -> object
  objs,                 \* the ClusterChild objects constructed so far
  num_policies,         \* child policy handlers constructed so far
  armed,                \* object -> its grpc_timer is pending
  ws_queue,             \* timer closures scheduled but not yet run
  channel,              \* last UpdateState received by the channel
  publications,         \* UpdateState calls made to the channel by the last step
  reused,               \* name -> object an update found alive, timer not fired
  crashed,              \* "no", or how the process died
  child_calls,          \* calls made to child policies by the last step
  unlinked,             \* objects whose pending timer its list no longer reaches
  wrappers,             \* the ChildPickerWrapper objects constructed so far
  wrapper_of,           \* name -> wrapper its record's picker_wrapper_ refers to
  pickers_held,         \* ClusterPicker objects the channel holds: name -> wrapper
  last_reported,        \* name -> picker its record's child reported last
  last_pick,            \* the Pick the channel made in the last step
  child_log,            \* the reports of one child, and what its record showed
  helper_call,          \* the last request of a child through its Helper
  json,                 \* the value given to ParseLoadBalancingConfig
  parsed,               \* what ParseLoadBalancingConfig returned for it
  timer_checks,         \* the timer code is built with its checks (no NDEBUG)
  list_stuck,           \* the traversal of the timer list has met a loop
  config_obj,           \* the config object config_ refers to (0: none)
  kept_configs,         \* config objects the caller of UpdateLocked still holds
  keys_of               \* ClusterPicker -> config object its keys point into

\* The state followed by value (router_vars, with config_) and the picker
\* objects followed by reference (picker_vars).
router_vars == <<shutting_down_, update_in_progress_, children_, objs,
                 num_policies, armed, ws_queue, channel, publications, reused,
                 crashed, child_calls, unlinked>>

picker_vars == <<wrappers, wrapper_of, pickers_held, last_reported, last_pick>>

vars == <<config_, shutting_down_, update_in_progress_, children_, objs,
          num_policies, armed, ws_queue, channel, publications, reused,
          crashed, child_calls, unlinked, wrappers, wrapper_of, pickers_held,
          last_reported, last_pick, child_log, helper_call, json, parsed,
          timer_checks, list_stuck, config_obj, kept_configs, keys_of>>

\* The config objects, followed by reference: the keys of a ClusterPicker are
\* string_views of the key strings of the config it was built from (lines
\* 124, 366-367).
config_vars == <<config_obj, kept_configs, keys_of>>

\* The factory's parser works on its argument only.
parser_vars == <<json, parsed>>

\* The timer code: how it is built and whether its thread still runs.
timer_vars == <<timer_checks, list_stuck>>

\* What the handlers of the policy itself never touch.
aux_vars == <<child_log, helper_call, parser_vars, timer_vars>>

\* What the handlers of the policy leave alone when the objects of the
\* pickers and the configs are not followed.
other_vars == <<picker_vars, config_vars, aux_vars>>

\* ---------------------------------------------------------------- helpers
Min(S) == CHOOSE x \in S : \A y \in S : x <= y

RECURSIVE SortedSeq(_)
\* The elements of a set of integers in increasing order (std::map iteration).
SortedSeq(S) == IF S = {} THEN <<>> ELSE <<Min(S)>> \o SortedSeq(S \ {Min(S)})

\* Pending timers and timer closures not yet run.
InFlight(a, q) == Cardinality({i \in DOMAIN a : a[i]}) + Len(q)

\* All orderings of a finite set, as sequences.
Perms(S) ==
  {s \in [1..Cardinality(S) -> S] : \A i, j \in 1..Cardinality(S) :
                                       i # j => s[i] # s[j]}

\* Names with a live (non-null) entry in a children map.
Live(ch) == {n \in DOMAIN ch : ch[n] # NullChild}

\* The record starts in CONNECTING.
NewChildConnecting(name) ==
  [name |-> name, child_policy |-> 0, picker_wrapper |-> NullPicker,
   connectivity_state |-> CONNECTING, pending |-> FALSE, shutdown |-> FALSE,
   refs |-> 1]

\* A freshly constructed ClusterChild (constructor and member initialisers).
NewChild(name) ==
  [name |-> name, child_policy |-> 0, picker_wrapper |-> NullPicker,
   connectivity_state |-> IDLE, pending |-> FALSE, shutdown |-> FALSE,
   refs |-> 1]

\* The memory of a ClusterChild whose last reference is gone: the object no
\* longer exists.
FreedChild ==
  [name |-> 0, child_policy |-> 0, picker_wrapper |-> NullPicker,
   connectivity_state |-> IDLE, pending |-> FALSE, shutdown |-> TRUE,
   refs |-> 0]

\* ------------------------------------------------- Helper::UpdateState
\* Lines 576-587: cache the picker, then record the state unless the last
\* recorded state was TRANSIENT_FAILURE and the new one is not READY.
RecordedStateLeavesOnIdle(old, state) ==
  IF old # TRANSIENT_FAILURE \/ state \in {READY, IDLE} THEN state ELSE old

\* Only a report of CONNECTING is masked.
RecordedStateMasksConnecting(old, state) ==
  IF old = TRANSIENT_FAILURE /\ state = CONNECTING THEN old ELSE state

RecordedState(old, state) ==
  IF old # TRANSIENT_FAILURE \/ state = READY THEN state ELSE old

\* The picker of a report whose state is masked is dropped with the state.
ApplyReportUnlessMasked(o, r) ==
  IF r = NoReport \/ RecordedState(o.connectivity_state, r.state) # r.state
  THEN o
  ELSE [o EXCEPT !.picker_wrapper = r.picker,
                 !.connectivity_state = r.state]

ApplyReport(o, r) ==
  IF r = NoReport THEN o
  ELSE [o EXCEPT !.picker_wrapper = r.picker,
                 !.connectivity_state = RecordedState(@, r.state)]

\* ------------------------------------------------- UpdateStateLocked
\* Lines 321-349: the children counted are those whose name is in the
\* latest config.
CountedChildrenAll(cfg, ch) == Live(ch)

CountedChildren(cfg, ch) == {n \in Live(ch) : n \in cfg}

NumInState(cfg, ch, os, st) ==
  Cardinality({n \in CountedChildren(cfg, ch) :
                 os[ch[n]].connectivity_state = st})

AggregateStateIdleFirst(cfg, ch, os) ==
  IF NumInState(cfg, ch, os, READY) > 0 THEN READY
  ELSE IF NumInState(cfg, ch, os, IDLE) > 0 THEN IDLE
  ELSE IF NumInState(cfg, ch, os, CONNECTING) > 0 THEN CONNECTING
  ELSE TRANSIENT_FAILURE

\* Lines 350-360.
AggregateState(cfg, ch, os) ==
  IF NumInState(cfg, ch, os, READY) > 0 THEN READY
  ELSE IF NumInState(cfg, ch, os, CONNECTING) > 0 THEN CONNECTING
  ELSE IF NumInState(cfg, ch, os, IDLE) > 0 THEN IDLE
  ELSE TRANSIENT_FAILURE

AggregateStatusUnlessReady(state) ==
  IF state # READY THEN "UNAVAILABLE" ELSE "OK"

\* Lines 384-388.
AggregateStatus(state) ==
  IF state = TRANSIENT_FAILURE THEN "UNAVAILABLE" ELSE "OK"

\* Lines 365-381: one entry per cluster of the config; a child without a
\* picker gets a QueuePicker.
PickerKeysOfChildren(cfg, ch) == Live(ch)

PickerKeys(cfg, ch) == cfg

ClusterMapOf(cfg, ch, os) ==
  [n \in PickerKeys(cfg, ch) |->
     [name |-> n,
      picker |-> IF os[ch[n]].picker_wrapper = NullPicker
                 THEN QueuePicker ELSE os[ch[n]].picker_wrapper]]

\* Line 347: a counted child in a state outside the four cases aborts.
HitsUnreachable(cfg, ch, os) ==
  \E n \in CountedChildren(cfg, ch) :
     os[ch[n]].connectivity_state
        \notin {READY, CONNECTING, IDLE, TRANSIENT_FAILURE}

\* Lines 368-369: children_[cluster_name] on a name without a record inserts
\* a null entry, which is then dereferenced.
MissingChildren(cfg, ch) == {n \in cfg : n \notin Live(ch)}

\* The outcome of UpdateStateLocked on the given router state:
\* "skip" (update in progress), "abort" (line 347), "nullderef" (line 369)
\* or "publish" with the UpdateState call made to the channel.
UpdateStateLocked(in_progress, cfg, ch, os) ==
  IF in_progress THEN [kind |-> "skip"]
  ELSE IF HitsUnreachable(cfg, ch, os) THEN [kind |-> "abort"]
  ELSE IF MissingChildren(cfg, ch) # {} THEN [kind |-> "nullderef"]
  ELSE [kind |-> "publish",
        pub |-> [state |-> AggregateState(cfg, ch, os),
                 status |-> AggregateStatus(AggregateState(cfg, ch, os)),
                 picker |-> ClusterMapOf(cfg, ch, os)]]

\* ------------------------------------------------- ClusterPicker::Pick
\* Line 110: the wrapper delegates to the child's picker; the result of a
\* child picker is opaque and is tagged with the picker that produced it.
ChildPick(w) ==
  IF w.picker = QueuePicker
  THEN [type |-> "Queue", cluster |-> w.name, picker |-> QueuePicker]
  ELSE [type |-> "Complete", cluster |-> w.name, picker |-> w.picker]

PickQueuesUnknown(cluster_map, attr) ==
  IF attr \in DOMAIN cluster_map THEN ChildPick(cluster_map[attr])
  ELSE [type |-> "Queue", cluster |-> attr, picker |-> QueuePicker]

\* Lines 231-243.
Pick(cluster_map, attr) ==
  IF attr \in DOMAIN cluster_map THEN ChildPick(cluster_map[attr])
  ELSE [type |-> "Fail", cluster |-> attr, picker |-> NullPicker]

\* ------------------------------------------------- timers
\* The memory the handlers work on, threaded through their statements:
\* the ClusterChild objects, their timers, the scheduled closures, the number
\* of child policies constructed, the timers lost by the timer list, and
\* whether the process has died.
Mem(os, a, q, np, ul) == [objs |-> os, armed |-> a, q |-> q, np |-> np,
                          unlinked |-> ul, dead |-> FALSE]

TimerClosure(id, error) == [child |-> id, error |-> error]

\* grpc_timer_cancel (lines 438, 482): a pending timer is removed and its
\* closure is scheduled with a cancelled error; otherwise nothing happens.
\* grpc_timer_cancel (lines 438, 482): a pending timer is taken out of its
\* list and its closure is scheduled as cancelled.  Once the traversal of the
\* list is caught in the loop that an "unlinked" timer (below) forms, it
\* holds the lock of the list for good: a cancel of that timer does not
\* return, and the policy with it.
TimerCancel(m, id) ==
  IF id \in m.unlinked /\ list_stuck THEN [m EXCEPT !.dead = TRUE]
  ELSE IF m.armed[id]
  THEN [m EXCEPT !.armed[id] = FALSE,
                 !.unlinked = @ \ {id},
                 !.q = Append(@, TimerClosure(id, "CANCELLED"))]
  ELSE m

\* Initialising a timer that is still pending is outside the contract of
\* grpc_timer_init, whose code is not part of this file.  A build with the
\* timer's checks (NDEBUG not defined) stops the process on the duplicate
\* ("abort").  A build without them links the timer into its list a second
\* time (list_join on a node that is in the list).  When other timers were
\* linked after it, the timer becomes the last of the list again, stays
\* pending with the new deadline and expires once ("relinked"; the timers
\* that were behind it belong to other objects).  When it was the last of
\* the list, it becomes its own successor: a traversal of the list never
\* gets past it, and the timer stays pending and never expires
\* ("unlinked").  Timers of other records are taken to be in other lists
\* (the timer code spreads them over several).
CheckedOutcomes == {"abort"}
UncheckedOutcomes == {"relinked", "unlinked"}
ReinitOutcomes == CheckedOutcomes \cup UncheckedOutcomes

\* grpc_timer_init (lines 519-523); reinit is what happens if the timer is
\* still pending.
TimerInit(m, id, reinit) ==
  IF m.armed[id]
  THEN IF reinit = "abort" \/ (id \in m.unlinked /\ list_stuck)
       THEN [m EXCEPT !.dead = TRUE]
       ELSE IF reinit = "relinked"
       THEN [m EXCEPT !.unlinked = @ \ {id}]
       ELSE [m EXCEPT !.unlinked = @ \cup {id}]
  ELSE [m EXCEPT !.armed[id] = TRUE]

\* ------------------------------------------------- ClusterChild
\* Ref (lines 452, 518) and Unref (lines 168, 441, 542) of a ClusterChild;
\* the object is destroyed when its last reference is released.
Ref(m, id) == [m EXCEPT !.objs[id].refs = @ + 1]

Unref(m, id) ==
  IF m.objs[id].refs = 1 THEN [m EXCEPT !.objs[id] = FreedChild]
  ELSE [m EXCEPT !.objs[id].refs = @ - 1]

\* A record that is already deactivated is deactivated again.
DeactivateLockedAgain(m, id, reinit) ==
  LET m1 == TimerInit(Ref(m, id), id, reinit)
  IN [m1 EXCEPT !.objs[id].pending = TRUE]

\* DeactivateLocked, lines 513-525.
DeactivateLocked(m, id, reinit) ==
  IF m.objs[id].pending THEN m
  ELSE LET m1 == TimerInit(Ref(m, id), id, reinit)
       IN [m1 EXCEPT !.objs[id].pending = TRUE]

\* The reactivated record starts over: IDLE and without picker.
ReactivateResetsState(m, id) ==
  IF m.objs[id].pending
  THEN TimerCancel([m EXCEPT !.objs[id].pending = FALSE,
                             !.objs[id].connectivity_state = IDLE,
                             !.objs[id].picker_wrapper = NullPicker], id)
  ELSE m

\* Lines 479-483: reactivate if needed.
Reactivate(m, id) ==
  IF m.objs[id].pending
  THEN TimerCancel([m EXCEPT !.objs[id].pending = FALSE], id)
  ELSE m

\* Lines 484-487: create the child policy if needed.
NeedsChildPolicy(o) == o.child_policy = 0

EnsureChildPolicy(m, id) ==
  IF NeedsChildPolicy(m.objs[id])
  THEN Ref([m EXCEPT !.objs[id].child_policy = m.np + 1, !.np = @ + 1], id)
  ELSE m

\* ClusterChild::UpdateLocked, lines 473-503, with the report the child
\* policy makes through its helper while it handles the forwarded update
\* (Helper::UpdateState, whose call of UpdateStateLocked returns at line 314).
ChildUpdateLocked(m, id, report, shutting_down) ==
  IF shutting_down THEN m
  ELSE LET m1 == EnsureChildPolicy(Reactivate(m, id), id)
       IN [m1 EXCEPT !.objs[id] = ApplyReport(@, report)]

\* The orphaned record keeps its child policy.
ResetChildPolicyNever(m, id) == m

\* Line 433: the record drops its child policy; the policy and the Helper
\* it owns are destroyed, which releases the Helper's reference (line 168).
ResetChildPolicy(m, id) ==
  IF m.objs[id].child_policy = 0 THEN m
  ELSE Unref([m EXCEPT !.objs[id].child_policy = 0], id)

\* Orphan, lines 421-442.
Orphan(m, id) ==
  LET m1 == ResetChildPolicy(m, id)
      m2 == [m1 EXCEPT !.objs[id].picker_wrapper = NullPicker]
      m3 == IF m2.objs[id].pending THEN TimerCancel(m2, id) ELSE m2
  IN Unref([m3 EXCEPT !.objs[id].shutdown = TRUE], id)

RECURSIVE DeactivateAll(_, _, _, _)
\* Lines 286-292, over the names in map order.
DeactivateAll(m, names, ch, reinit) ==
  IF names = <<>> THEN m
  ELSE DeactivateAll(DeactivateLocked(m, ch[Head(names)], reinit),
                     Tail(names), ch, reinit)

RECURSIVE UpdateAll(_, _, _, _)
\* Lines 294-303 (the records already created), over the names in map order.
UpdateAll(m, names, ch, reports) ==
  IF names = <<>> THEN m
  ELSE UpdateAll(ChildUpdateLocked(m, ch[Head(names)],
                                   reports[Head(names)], FALSE),
                 Tail(names), ch, reports)

RECURSIVE OrphanAll(_, _)
OrphanAll(m, ids) ==
  IF ids = <<>> THEN m ELSE OrphanAll(Orphan(m, Head(ids)), Tail(ids))

\* ------------------------------------------------- XdsClusterManagerLb
\* Lines 297-301: the names of the config without a record get a new
\* ClusterChild, constructed in map order.
NewNames(cfg, ch) == {n \in cfg : n \notin Live(ch)}

NewId(n, cfg, ch, os) ==
  Len(os) + Cardinality({k \in NewNames(cfg, ch) : k <= n})

WithNewChildren(cfg, ch, os) ==
  [i \in 1..(Len(os) + Cardinality(NewNames(cfg, ch))) |->
     IF i <= Len(os) THEN os[i]
     ELSE NewChild(CHOOSE n \in NewNames(cfg, ch) : NewId(n, cfg, ch, os) = i)]

ChildrenAfterUpdate(cfg, ch, os) ==
  [n \in Live(ch) \cup cfg |->
     IF n \in Live(ch) THEN ch[n] ELSE NewId(n, cfg, ch, os)]

\* The records an update deactivates (lines 286-292).
Deactivated(cfg, ch) == {n \in Live(ch) : n \notin cfg}

\* Records an update finds alive whose timer has not fired: no closure of an
\* expired timer of theirs is waiting to run.
FoundAlive(cfg, ch, q) ==
  {n \in cfg \cap Live(ch) :
     \A i \in 1..Len(q) : ~(q[i].child = ch[n] /\ q[i].error = "NONE")}

\* The records whose deactivation by an update to cfg initialises a timer
\* that is still pending (line 515 passed with the timer pending).
Reinitialised(cfg, ch, os, a) ==
  {n \in Deactivated(cfg, ch) : ~os[ch[n]].pending /\ a[ch[n]]}

\* What the timer code of the build may do in an update to cfg.
ReinitChoices(cfg, ch, os, a) ==
  IF Reinitialised(cfg, ch, os, a) = {} THEN {"relinked"}
  ELSE IF timer_checks THEN CheckedOutcomes ELSE UncheckedOutcomes

\* The calls of child_policy_->UpdateLocked an update to cfg makes (line
\* 502), in map order.
ChildCall(op, policy) == [op |-> op, policy |-> policy]

UpdateCalls(cfg, ch, os) ==
  [i \in 1..Cardinality(cfg) |->
     ChildCall("UpdateLocked", os[ch[SortedSeq(cfg)[i]]].child_policy)]

\* The memory after the two loops of UpdateLocked, lines 286-303.
AfterUpdateLoops(cfg, reports, reinit) ==
  LET m0 == Mem(objs, armed, ws_queue, num_policies, unlinked)
      m1 == DeactivateAll(m0, SortedSeq(Deactivated(cfg, children_)),
                          children_, reinit)
      os2 == WithNewChildren(cfg, children_, m1.objs)
      m2 == [m1 EXCEPT !.objs = os2,
                       !.armed = [i \in DOMAIN os2 |->
                                    IF i \in DOMAIN m1.armed
                                    THEN m1.armed[i] ELSE FALSE]]
  IN UpdateAll(m2, SortedSeq(cfg),
               ChildrenAfterUpdate(cfg, children_, objs), reports)

\* The process has died: "abort" at line 347, "nullderef" of a null
\* ClusterChild at line 369, a pending "timer" initialised again at line
\* 519 or a call of the timer code that does not return (438, 482, 519), or
\* a "useafterfree" at line 237.  The handler it died in has done
\* nothing anyone observes and no handler runs afterwards: the policy stays
\* as the handler found it, with every record, timer and closure it had.
Crash(how) ==
  /\ crashed' = how
  /\ publications' = 0
  /\ child_calls' = <<>>
  /\ UNCHANGED <<config_, shutting_down_, update_in_progress_, children_,
                 objs, num_policies, armed, ws_queue, channel, reused,
                 unlinked>>

\* Lines 278 and 573: a handler returns at once when the policy is shutting
\* down.
ReturnsEarlyNever(shutting_down) == FALSE

ReturnsEarly(shutting_down) == shutting_down

\* UpdateLocked, lines 277-306.
UpdateLocked(cfg, reports) ==
  /\ crashed = "no"
  /\ IF ReturnsEarly(shutting_down_)
     THEN /\ publications' = 0
          /\ child_calls' = <<>>
          /\ UNCHANGED <<config_, shutting_down_, update_in_progress_,
                         children_, objs, num_policies, armed, ws_queue,
                         channel, reused, crashed, unlinked>>
     ELSE \E reinit \in ReinitChoices(cfg, children_, objs, armed) :
          \E m \in {AfterUpdateLoops(cfg, reports, reinit)} :
          \E ch \in {ChildrenAfterUpdate(cfg, children_, objs)} :
          \E res \in {UpdateStateLocked(FALSE, cfg, ch, m.objs)} :
             /\ Len(m.objs) <= MaxObjs
             /\ InFlight(m.armed, m.q) <= MaxInFlight
             /\ \A id \in DOMAIN m.objs : m.objs[id].refs <= MaxRefs
             /\ IF m.dead THEN Crash("timer")
                ELSE IF res.kind # "publish" THEN Crash(res.kind)
                ELSE /\ config_' = cfg
                     /\ children_' = ch
                     /\ objs' = m.objs
                     /\ armed' = m.armed
                     /\ ws_queue' = m.q
                     /\ num_policies' = m.np
                     /\ reused' = [n \in FoundAlive(cfg, children_, ws_queue)
                                     |-> children_[n]]
                     /\ update_in_progress_' = FALSE
                     /\ unlinked' = m.unlinked
                     /\ channel' = res.pub
                     /\ publications' = 1
                     /\ child_calls' = UpdateCalls(cfg, ch, m.objs)
                     /\ UNCHANGED <<shutting_down_, crashed>>

\* Shutdown also drops the reference to the configuration.
ShutdownLockedReleasesConfig(order) ==
  /\ crashed = "no"
  /\ \E m \in {OrphanAll(Mem(objs, armed, ws_queue, num_policies,
                             unlinked),
                         [i \in DOMAIN order |-> children_[order[i]]])} :
        IF m.dead THEN Crash("timer")
        ELSE /\ shutting_down_' = TRUE
             /\ config_' = NullConfig
             /\ children_' = <<>>
             /\ objs' = m.objs
             /\ armed' = m.armed
             /\ ws_queue' = m.q
             /\ unlinked' = m.unlinked
             /\ reused' = <<>>
             /\ publications' = 0
             /\ child_calls' = <<>>
             /\ UNCHANGED <<update_in_progress_, num_policies, channel,
                            crashed>>

\* ShutdownLocked, lines 261-267; children_.clear() orphans every record, in
\* the order the map's implementation destroys its nodes.
ShutdownLocked(order) ==
  /\ crashed = "no"
  /\ \E m \in {OrphanAll(Mem(objs, armed, ws_queue, num_policies,
                             unlinked),
                         [i \in DOMAIN order |-> children_[order[i]]])} :
        IF m.dead THEN Crash("timer")
        ELSE /\ shutting_down_' = TRUE
             /\ children_' = <<>>
             /\ objs' = m.objs
             /\ armed' = m.armed
             /\ ws_queue' = m.q
             /\ unlinked' = m.unlinked
             /\ reused' = <<>>
             /\ publications' = 0
             /\ child_calls' = <<>>
             /\ UNCHANGED <<config_, update_in_progress_, num_policies,
                            channel, crashed>>

\* Helper::UpdateState, lines 561-590, called by the child policy of object
\* id outside an update.  A child policy that ShutdownLocked orphaned may
\* still deliver a report it had under way.
HelperUpdateState(id, r) ==
  /\ crashed = "no"
  /\ id \in DOMAIN objs
  /\ objs[id].child_policy # 0 \/ shutting_down_
  /\ IF ReturnsEarly(shutting_down_)
     THEN /\ publications' = 0
          /\ child_calls' = <<>>
          /\ UNCHANGED <<config_, shutting_down_, update_in_progress_,
                         children_, objs, num_policies, armed, ws_queue,
                         channel, reused, crashed, unlinked>>
     ELSE \E os \in {[objs EXCEPT ![id] = ApplyReport(@, r)]} :
          \E res \in {UpdateStateLocked(update_in_progress_, config_,
                                        children_, os)} :
             IF res.kind \in {"abort", "nullderef"} THEN Crash(res.kind)
             ELSE /\ objs' = os
                  /\ channel' = IF res.kind = "publish" THEN res.pub
                                ELSE channel
                  /\ publications' = IF res.kind = "publish" THEN 1 ELSE 0
                  /\ child_calls' = <<>>
                  /\ UNCHANGED <<config_, shutting_down_, update_in_progress_,
                                 children_, num_policies, armed, ws_queue,
                                 reused, crashed, unlinked>>

\* Lines 269-275 with 505-511: ExitIdleLocked and ResetBackoffLocked call the
\* child policy of every record of children_, in map order.
\* The records pending removal are passed over.
ForwardTargetsNotPending(ch, os) ==
  [i \in 1..Cardinality({n \in Live(ch) : ~os[ch[n]].pending}) |->
     os[ch[SortedSeq({n \in Live(ch) : ~os[ch[n]].pending})[i]]].child_policy]

ForwardTargets(ch, os) ==
  [i \in 1..Cardinality(Live(ch)) |->
     os[ch[SortedSeq(Live(ch))[i]]].child_policy]

\* The record of children_ that owns a child policy.
RecordOf(policy, ch, os) ==
  CHOOSE n \in Live(ch) : os[ch[n]].child_policy = policy

\* What a forwarding has done so far: the records as the reports made during
\* it left them, the channel, the publications and the calls made, and
\* whether the process has died.
ForwardState(os, chan) ==
  [objs |-> os, channel |-> chan, publications |-> 0, calls |-> <<>>,
   crashed |-> "no"]

RECURSIVE ForwardAll(_, _, _, _)
\* Lines 505-511 for each of the targets in turn: child_policy_-> of a null
\* child policy has no defined result; the child policy is called, and may
\* report through its helper before it returns (Helper::UpdateState, lines
\* 561-590, whose UpdateStateLocked publishes when no update is in
\* progress).
ForwardAll(f, targets, op, reports) ==
  IF targets = <<>> \/ f.crashed # "no" THEN f
  ELSE IF Head(targets) = 0 THEN [f EXCEPT !.crashed = "nullderef"]
  ELSE LET n == RecordOf(Head(targets), children_, f.objs)
           called == [f EXCEPT !.calls =
                                  Append(@, ChildCall(op, Head(targets)))]
           os == [f.objs EXCEPT ![children_[n]] = ApplyReport(@, reports[n])]
           res == UpdateStateLocked(update_in_progress_, config_, children_,
                                    os)
       IN IF reports[n] = NoReport \/ ReturnsEarly(shutting_down_)
          THEN ForwardAll(called, Tail(targets), op, reports)
          ELSE IF res.kind \in {"abort", "nullderef"}
          THEN [called EXCEPT !.objs = os, !.crashed = res.kind]
          ELSE IF res.kind = "skip"
          THEN ForwardAll([called EXCEPT !.objs = os], Tail(targets), op,
                          reports)
          ELSE ForwardAll([called EXCEPT !.objs = os,
                                         !.channel = res.pub,
                                         !.publications = @ + 1],
                          Tail(targets), op, reports)

\* The loop of lines 270 and 274, with what the children report while they
\* are called.  When the process dies in the report of a child, the calls
\* and the publications made before stay made.
ForwardToChildren(op, reports) ==
  \E f \in {ForwardAll(ForwardState(objs, channel),
                       ForwardTargets(children_, objs), op, reports)} :
     /\ objs' = f.objs
     /\ channel' = f.channel
     /\ publications' = f.publications
     /\ child_calls' = f.calls
     /\ crashed' = f.crashed
     /\ UNCHANGED <<config_, shutting_down_, update_in_progress_, children_,
                    num_policies, armed, ws_queue, reused, unlinked>>

\* ExitIdleLocked, lines 269-271.
ExitIdleLocked(reports) ==
  /\ crashed = "no"
  /\ ForwardToChildren("ExitIdleLocked", reports)

\* ResetBackoffLocked, lines 273-275.
ResetBackoffLocked(reports) ==
  /\ crashed = "no"
  /\ ForwardToChildren("ResetBackoffLocked", reports)

\* The timer of object id reaches its deadline: the timer subsystem
\* schedules its closure without error; OnDelayedRemovalTimer (lines 527-534)
\* passes it on to the work serializer.
TimerExpire(id) ==
  /\ crashed = "no"
  /\ id \in DOMAIN armed
  /\ armed[id]
  /\ id \notin unlinked
  /\ armed' = [armed EXCEPT ![id] = FALSE]
  /\ ws_queue' = Append(ws_queue, TimerClosure(id, "NONE"))
  /\ publications' = 0
  /\ child_calls' = <<>>
  /\ UNCHANGED <<config_, shutting_down_, update_in_progress_, children_,
                 objs, num_policies, channel, reused, crashed, unlinked>>

\* The thread of the timer code traverses the list in which a timer is its
\* own successor, and stays in it.
TimerListLoops ==
  /\ crashed = "no"
  /\ unlinked # {}
  /\ ~list_stuck
  /\ list_stuck' = TRUE
  /\ publications' = 0
  /\ child_calls' = <<>>
  /\ UNCHANGED <<config_, shutting_down_, update_in_progress_, children_,
                 objs, num_policies, armed, ws_queue, channel, reused,
                 crashed, unlinked, picker_vars, config_vars, child_log,
                 helper_call, parser_vars, timer_checks>>

\* Line 539: whether the callback erases the record.
ErasesChild(error, o) == error = "NONE" /\ ~o.shutdown

\* OnDelayedRemovalTimerLocked, lines 536-544, for the closure at the head
\* of the work serializer's queue; erasing the map entry orphans the record
\* it holds.
OnDelayedRemovalTimerLocked ==
  /\ crashed = "no"
  /\ ws_queue # <<>>
  /\ LET cb == Head(ws_queue)
         id == cb.child
         m0 == Mem([objs EXCEPT ![id].pending = FALSE], armed,
                   Tail(ws_queue), num_policies, unlinked)
         name == objs[id].name
         erase == ErasesChild(cb.error, objs[id]) /\ name \in Live(children_)
         m1 == IF erase THEN Orphan(m0, children_[name]) ELSE m0
         m == Unref(m1, id)
     IN /\ objs' = m.objs
        /\ armed' = m.armed
        /\ ws_queue' = m.q
        /\ children_' = IF erase
                        THEN [n \in DOMAIN children_ \ {name} |-> children_[n]]
                        ELSE children_
        /\ unlinked' = m.unlinked
        /\ publications' = 0
        /\ child_calls' = <<>>
        /\ UNCHANGED <<config_, shutting_down_, update_in_progress_,
                       num_policies, channel, reused, crashed>>

\* The policy after construction.
Constructed ==
  /\ config_ = NullConfig
  /\ shutting_down_ = FALSE
  /\ update_in_progress_ = FALSE
  /\ children_ = <<>>
  /\ objs = <<>>
  /\ num_policies = 0
  /\ armed = <<>>
  /\ ws_queue = <<>>
  /\ channel = NoPublication
  /\ publications = 0
  /\ reused = <<>>
  /\ crashed = "no"
  /\ child_calls = <<>>
  /\ unlinked = {}
  /\ wrappers = <<>>
  /\ wrapper_of = <<>>
  /\ pickers_held = <<>>
  /\ last_reported = <<>>
  /\ last_pick = NoPick
  /\ child_log = <<>>
  /\ helper_call = NoCall
  /\ json = NoJson
  /\ parsed = NotParsed
  /\ config_obj = 0
  /\ kept_configs = {}
  /\ keys_of = <<>>
  /\ list_stuck = FALSE

\* The build has the timer's checks, as the builds the tests run on.  A
\* build without them differs only in what follows the initialisation of a
\* pending timer (UncheckedOutcomes); FairSpec covers both.
Init == Constructed /\ timer_checks = TRUE

\* Any build.
AnyBuildInit == Constructed /\ timer_checks \in BOOLEAN

Next ==
  \/ \E cfg \in ClusterMaps : \E reports \in [cfg -> SyncReports] :
       UpdateLocked(cfg, reports) /\ UNCHANGED other_vars
  \/ \E order \in Perms(Live(children_)) :
       ShutdownLocked(order) /\ UNCHANGED other_vars
  \/ \E id \in DOMAIN objs : \E r \in Reports :
       HelperUpdateState(id, r) /\ UNCHANGED other_vars
  \/ \E id \in DOMAIN objs : TimerExpire(id) /\ UNCHANGED other_vars
  \/ OnDelayedRemovalTimerLocked /\ UNCHANGED other_vars
  \/ \E reports \in [Live(children_) -> SyncReports] :
       ExitIdleLocked(reports) /\ UNCHANGED other_vars
  \/ \E reports \in [Live(children_) -> SyncReports] :
       ResetBackoffLocked(reports) /\ UNCHANGED other_vars

Spec == Init /\ [][Next]_vars

\* ------------------------------------------------- picker objects
\* The ChildPickerWrapper, ClusterPicker and config objects, followed by
\* reference along the steps of the policy: a record and the ClusterPickers
\* built while it caches a wrapper share that wrapper
\* (RefCountedPtr<ChildPickerWrapper>, lines 124, 200); the channel keeps
\* the ClusterPickers it was given; and the keys of a ClusterPicker are
\* string_views of the key strings of the config that was current when it
\* was built (lines 124-128, 366-367), while the ClusterPicker holds no
\* reference to that config.  Every UpdateLocked is given a new config
\* object, of which its caller keeps a reference or not.

\* The reports of a child, with the pickers told apart.
TokenReports == [state : ContractStates, picker : Tokens]

\* The cluster_map_ of a ClusterPicker with the wrappers its entries refer to.
Deref(cm, ws) == [n \in DOMAIN cm |-> ws[cm[n]]]

\* A record with a wrapper keeps it.
CachePickerOnce(ws, wo, n, p) ==
  IF wo[n] = NullPicker
  THEN [wrappers |-> Append(ws, [name |-> n, picker |-> p]),
        wrapper_of |-> [wo EXCEPT ![n] = Len(ws) + 1]]
  ELSE [wrappers |-> ws, wrapper_of |-> wo]

\* Lines 576-579: the record of cluster n caches picker p in a new wrapper.
CachePicker(ws, wo, n, p) ==
  [wrappers |-> Append(ws, [name |-> n, picker |-> p]),
   wrapper_of |-> [wo EXCEPT ![n] = Len(ws) + 1]]

RECURSIVE BuildPicker(_, _, _, _)
\* Lines 365-383, over the names of the config in map order: the entry of a
\* name refers to the wrapper of its record, or to a new wrapper of a
\* QueuePicker when the record has none.
BuildPicker(names, wo, ws, cm) ==
  IF names = <<>> THEN [wrappers |-> ws, cluster_map |-> cm]
  ELSE IF wo[Head(names)] = NullPicker
  THEN BuildPicker(Tail(names), wo,
                   Append(ws, [name |-> Head(names), picker |-> QueuePicker]),
                   cm @@ (Head(names) :> Len(ws) + 1))
  ELSE BuildPicker(Tail(names), wo, ws,
                   cm @@ (Head(names) :> wo[Head(names)]))

\* A config object exists as long as config_ refers to it (line 284 releases
\* the one before) or the caller of UpdateLocked kept its reference.
ConfigAlive(c, current, kept) == c = current \/ c \in kept

\* The process has died (Crash): the pickers and configs stay as the handler
\* it died in found them, and no Pick is made.
PickersLost ==
  /\ last_pick' = NoPick
  /\ UNCHANGED <<wrappers, wrapper_of, pickers_held, last_reported,
                 config_vars>>

\* UpdateLocked, lines 277-306, with a new config object of which the caller
\* keeps a reference or not: config_ takes the new object and releases the
\* one it held (line 284), the names of the config without a record get one
\* (lines 297-301), and UpdateStateLocked hands the channel a new
\* ClusterPicker whose keys point into the new config.
ConfigPublished(cfg, keep) ==
  /\ ~shutting_down_
  /\ Len(pickers_held) < MaxHeld
  /\ UpdateLocked(cfg, [n \in cfg |-> NoReport])
  /\ IF crashed' # "no" THEN PickersLost
     ELSE \E wo \in {[n \in Live(children_') |->
                        IF n \in DOMAIN wrapper_of THEN wrapper_of[n]
                        ELSE NullPicker]} :
          \E b \in {BuildPicker(SortedSeq(cfg), wo, wrappers, <<>>)} :
             /\ Len(b.wrappers) <= MaxWrappers
             /\ wrappers' = b.wrappers
             /\ wrapper_of' = wo
             /\ pickers_held' = Append(pickers_held, b.cluster_map)
             /\ last_reported' = [n \in DOMAIN wo |->
                                    IF n \in DOMAIN last_reported
                                    THEN last_reported[n] ELSE NullPicker]
             /\ last_pick' = NoPick
             /\ config_obj' = config_obj + 1
             /\ kept_configs' = IF keep THEN kept_configs \cup {config_obj + 1}
                                ELSE kept_configs
             /\ keys_of' = Append(keys_of, config_obj + 1)

\* ShutdownLocked, lines 261-267: every record is orphaned and drops its
\* reference to its wrapper (line 436).
RecordsOrphaned(order) ==
  /\ ~shutting_down_
  /\ ShutdownLocked(order)
  /\ wrapper_of' = <<>>
  /\ last_reported' = <<>>
  /\ last_pick' = NoPick
  /\ UNCHANGED <<wrappers, pickers_held, config_vars>>

\* Helper::UpdateState, lines 561-590: the child of the record of cluster n
\* reports; the record caches the picker in a new wrapper and
\* UpdateStateLocked hands the channel a new ClusterPicker, whose keys point
\* into the current config.
ChildReports(n, r) ==
  /\ ~shutting_down_
  /\ n \in Live(children_)
  /\ Len(pickers_held) < MaxHeld
  /\ HelperUpdateState(children_[n], r)
  /\ IF crashed' # "no" THEN PickersLost
     ELSE \E c \in {CachePicker(wrappers, wrapper_of, n, r.picker)} :
          \E b \in {BuildPicker(SortedSeq(config_), c.wrapper_of, c.wrappers,
                                <<>>)} :
             /\ Len(b.wrappers) <= MaxWrappers
             /\ wrappers' = b.wrappers
             /\ wrapper_of' = c.wrapper_of
             /\ pickers_held' = Append(pickers_held, b.cluster_map)
             /\ last_reported' = [last_reported EXCEPT ![n] = r.picker]
             /\ last_pick' = NoPick
             /\ keys_of' = Append(keys_of, config_obj)
             /\ UNCHANGED <<config_obj, kept_configs>>

\* The removal timer of object id expires (TimerExpire): no object of the
\* pickers is touched.
TimerFires(id) ==
  /\ TimerExpire(id)
  /\ last_pick' = NoPick
  /\ UNCHANGED <<wrappers, wrapper_of, pickers_held, last_reported,
                 config_vars>>

\* OnDelayedRemovalTimerLocked, lines 536-544: when the callback erases the
\* record of its cluster (line 540), Orphan drops the record's reference to
\* its wrapper (line 436).
RemovalCallbackRuns ==
  /\ OnDelayedRemovalTimerLocked
  /\ wrapper_of' = [k \in DOMAIN wrapper_of \cap Live(children_') |->
                      wrapper_of[k]]
  /\ last_reported' = [k \in DOMAIN last_reported \cap Live(children_') |->
                         last_reported[k]]
  /\ last_pick' = NoPick
  /\ UNCHANGED <<wrappers, pickers_held, config_vars>>

\* What Pick may return when the config its keys point into has been
\* destroyed: the lookup at line 237 compares the attribute with freed
\* memory, so it finds no entry or any one of them.
DanglingPicks(cluster_map, attr) ==
  {[type |-> "Fail", cluster |-> attr, picker |-> NullPicker]}
    \cup {ChildPick(cluster_map[n]) : n \in DOMAIN cluster_map}

\* The channel calls Pick (lines 231-243) on the i-th ClusterPicker it holds,
\* for a call with routing attribute attr.  With the keys' config destroyed
\* the read of the keys is a use after free: the Pick returns one of
\* DanglingPicks or the process dies.
ChannelPicks(i, attr) ==
  /\ crashed = "no"
  /\ i \in DOMAIN pickers_held
  /\ IF ConfigAlive(keys_of[i], config_obj, kept_configs)
     THEN /\ last_pick' =
               [attr |-> attr, cluster_map |-> pickers_held[i],
                result |-> Pick(Deref(pickers_held[i], wrappers), attr)]
          /\ UNCHANGED <<config_, wrappers, wrapper_of, pickers_held,
                         last_reported, config_vars, router_vars>>
     ELSE \/ \E result \in DanglingPicks(Deref(pickers_held[i], wrappers),
                                         attr) :
               /\ last_pick' = [attr |-> attr,
                                cluster_map |-> pickers_held[i],
                                result |-> result]
               /\ UNCHANGED <<config_, wrappers, wrapper_of, pickers_held,
                              last_reported, config_vars, router_vars>>
          \/ Crash("useafterfree") /\ PickersLost

PickerNext ==
  \/ \E cfg \in ClusterMaps : \E keep \in BOOLEAN :
       ConfigPublished(cfg, keep) /\ UNCHANGED aux_vars
  \/ \E n \in Names : \E r \in TokenReports :
       ChildReports(n, r) /\ UNCHANGED aux_vars
  \/ \E id \in DOMAIN objs : TimerFires(id) /\ UNCHANGED aux_vars
  \/ RemovalCallbackRuns /\ UNCHANGED aux_vars
  \/ \E order \in Perms(Live(children_)) :
       RecordsOrphaned(order) /\ UNCHANGED aux_vars
  \/ \E i \in DOMAIN pickers_held : \E attr \in Attributes :
       ChannelPicks(i, attr) /\ UNCHANGED aux_vars

PickerSpec == Init /\ [][PickerNext]_vars

\* ------------------------------------------------- the reports of a child
\* One ClusterChild followed through the reports of its child policy, with
\* UpdateLocked taken in the two parts between which the child policy, given
\* the update at line 502, may report: the reports made in between find
\* update_in_progress_ set.  The configuration names one cluster, so no
\* record is deactivated.  A report carries one of several pickers, and
\* child_log keeps each report with what the record showed after it.
\* UpdateLocked, lines 277-303: up to the forwarding of the update to the
\* children.
UpdateStarts(cfg) ==
  /\ crashed = "no"
  /\ ~shutting_down_
  /\ ~update_in_progress_
  /\ \E reinit \in ReinitChoices(cfg, children_, objs, armed) :
     \E m \in {AfterUpdateLoops(cfg, [n \in cfg |-> NoReport], reinit)} :
        /\ ~m.dead
        /\ update_in_progress_' = TRUE
        /\ config_' = cfg
        /\ children_' = ChildrenAfterUpdate(cfg, children_, objs)
        /\ objs' = m.objs
        /\ armed' = m.armed
        /\ ws_queue' = m.q
        /\ num_policies' = m.np
        /\ unlinked' = m.unlinked
        /\ publications' = 0
        /\ child_calls' = UpdateCalls(cfg, children_', m.objs)
  /\ UNCHANGED <<shutting_down_, channel, reused, crashed, other_vars>>

\* UpdateLocked, lines 304-305.
UpdateCompletes ==
  /\ crashed = "no"
  /\ update_in_progress_
  /\ \E res \in {UpdateStateLocked(FALSE, config_, children_, objs)} :
        IF res.kind # "publish" THEN Crash(res.kind)
        ELSE /\ update_in_progress_' = FALSE
             /\ channel' = res.pub
             /\ publications' = 1
             /\ child_calls' = <<>>
             /\ UNCHANGED <<config_, shutting_down_, children_, objs,
                            num_policies, armed, ws_queue, reused, crashed,
                            unlinked>>
  /\ UNCHANGED other_vars

\* Helper::UpdateState, lines 561-590, with the report and its effect on the
\* record written to the log.
ChildReportLogged(id, r) ==
  /\ Len(child_log) < MaxReports
  /\ HelperUpdateState(id, r)
  /\ child_log' =
       Append(child_log,
              [state |-> r.state, picker |-> r.picker,
               in_update |-> update_in_progress_,
               visible |-> objs'[id].connectivity_state,
               cached |-> objs'[id].picker_wrapper,
               published |-> publications'])
  /\ UNCHANGED <<helper_call, parser_vars, timer_vars, picker_vars,
                 config_vars>>

ChildNext ==
  \/ \E cfg \in {{Min(Names)}} : UpdateStarts(cfg)
  \/ UpdateCompletes
  \/ \E id \in DOMAIN objs : \E r \in TokenReports : ChildReportLogged(id, r)

ChildSpec == Init /\ [][ChildNext]_vars

\* ================================================================ claims
\* The records of the clusters of the current config, and their states.
Configured == config_ \cap Live(children_)

StateOf(n) == objs[children_[n]].connectivity_state

ConfiguredStates == {StateOf(n) : n \in Configured}

\* Records pending removal: their name is not in the current config.
PendingRemoval == {n \in Live(children_) : n \notin config_}

\* The step runs a timer closure in the work serializer.
TimerCallbackStep == crashed' = "no" /\ Len(ws_queue') < Len(ws_queue)

\* C1: every publication made by the router carries a ClusterPicker whose
\* key set is exactly the key set of the current configuration: no
\* configured cluster is missing, no cluster pending removal is present.
C1_PickerKeysAreConfigKeys ==
  publications > 0 => DOMAIN channel.picker = config_

C1_Witness ==
  /\ publications > 0
  /\ PendingRemoval # {}
  /\ DOMAIN channel.picker = config_
  /\ PendingRemoval \cap DOMAIN channel.picker = {}

\* C2: the published aggregate state is the highest-priority state among the
\* visible states of the configured children, under
\* READY > CONNECTING > IDLE > TRANSIENT_FAILURE.
HighestPriority(S) ==
  IF READY \in S THEN READY
  ELSE IF CONNECTING \in S THEN CONNECTING
  ELSE IF IDLE \in S THEN IDLE
  ELSE TRANSIENT_FAILURE

C2_AggregateIsHighestPriority ==
  publications > 0 => channel.state = HighestPriority(ConfiguredStates)

C2_Witness ==
  /\ publications > 0
  /\ ConfiguredStates = {CONNECTING, IDLE}
  /\ channel.state = CONNECTING

\* C3: a record pending removal never contributes to the aggregate: the
\* published state is the visible state of some configured record, whatever
\* the states of the records pending removal.
C3_PendingRemovalNotCounted ==
  publications > 0 => \E n \in Configured : StateOf(n) = channel.state

C3_Witness ==
  /\ publications > 0
  /\ \E n \in PendingRemoval : StateOf(n) = READY
  /\ channel.state # READY

\* C4: the published status is Unavailable exactly when the published state
\* is TRANSIENT_FAILURE, and the state is TRANSIENT_FAILURE only when every
\* configured child's visible state is TRANSIENT_FAILURE.
C4_UnavailableIffAllFailing ==
  publications > 0 =>
    /\ (channel.status = "UNAVAILABLE") <=> (channel.state = TRANSIENT_FAILURE)
    /\ channel.status \in {"UNAVAILABLE", "OK"}
    /\ channel.state = TRANSIENT_FAILURE =>
         \A n \in config_ :
            n \in Live(children_) /\ StateOf(n) = TRANSIENT_FAILURE

C4_Witness ==
  /\ publications > 0
  /\ Cardinality(config_) = 2
  /\ channel.state = TRANSIENT_FAILURE
  /\ channel.status = "UNAVAILABLE"

\* C5: failure latching: a record whose visible state is TRANSIENT_FAILURE
\* keeps it in every step unless the child reports READY, so it can leave
\* TRANSIENT_FAILURE only for READY; and a report to a record whose visible
\* state is not TRANSIENT_FAILURE makes the reported state the visible state.
RecordLives(id) ==
  /\ id \in DOMAIN objs /\ objs[id].child_policy # 0
  /\ id \in DOMAIN objs' /\ objs'[id].child_policy # 0

\* The visible state a report leaves on a record, by the latching rule.
Latched(old, reported) ==
  IF old = TRANSIENT_FAILURE /\ reported # READY
  THEN TRANSIENT_FAILURE ELSE reported

C5_FailureLatching ==
  /\ [](\A id \in DOMAIN objs : \A r \in Reports :
          objs[id].child_policy # 0
            => ApplyReport(objs[id], r).connectivity_state =
                 Latched(objs[id].connectivity_state, r.state))
  /\ [][\A id \in DOMAIN objs :
          (/\ RecordLives(id)
           /\ objs[id].connectivity_state = TRANSIENT_FAILURE
           /\ objs'[id].connectivity_state # TRANSIENT_FAILURE)
          => objs'[id].connectivity_state = READY]_vars

C5_Witness ==
  \E id \in DOMAIN objs :
    /\ objs[id].child_policy # 0
    /\ objs[id].connectivity_state = TRANSIENT_FAILURE
    /\ objs[id].name \in config_
    /\ publications > 0
    /\ channel.state = CONNECTING

\* C6: a record that an UpdateConfig reuses before its removal timer has
\* fired is the same record with the same inner instance from then on, and
\* is never removed from the children map while its name stays configured.
C6_ReusedRecordStays ==
  \A n \in DOMAIN reused :
    /\ n \in Live(children_)
    /\ children_[n] = reused[n]
    /\ objs[reused[n]].child_policy # 0

\* C7: a reactivation executed in the work serializer before the removal
\* timer's callback prevents the callback's effect: a timer callback never
\* erases the record of a cluster that is in the current configuration.
C7_ReactivationPreventsErase ==
  [][(TimerCallbackStep /\ ~shutting_down_)
       => \A n \in Configured :
            /\ n \in Live(children_')
            /\ children_'[n] = children_[n]]_vars

\* C8: outside an UpdateConfig pass and before shutdown the children map
\* holds a live record for every cluster of the current configuration.
C8_ChildrenCoverConfig ==
  (crashed = "no" /\ ~shutting_down_ /\ ~update_in_progress_)
    => config_ \subseteq Live(children_)

\* What a step of UpdateLocked that did not return early shows: it called a
\* child policy's UpdateLocked first, or the process ended in it.
UpdateActs ==
  /\ crashed = "no"
  /\ \/ crashed' # "no"
     \/ (child_calls' # <<>> /\ child_calls'[1].op = "UpdateLocked")

\* The step is an UpdateLocked; UpdateActs tells it from the other handlers'
\* steps before the configurations are tried.
UpdateStep ==
  /\ shutting_down_ \/ UpdateActs
  /\ \E cfg \in ClusterMaps : \E reports \in [cfg -> SyncReports] :
        UpdateLocked(cfg, reports)

\* C9: every UpdateConfig call on a router that is not shut down produces
\* exactly one publication (none for the callbacks children make while the
\* update is forwarded), made after all children of the new snapshot have
\* been created and updated.
C9_OnePublicationPerUpdate ==
  [][(~shutting_down_ /\ UpdateStep)
       => /\ publications' = 1
          /\ DOMAIN channel'.picker = config_'
          /\ config_' \subseteq Live(children_')
          /\ \A n \in config_' : objs'[children_'[n]].child_policy # 0]_vars

\* C10 as stated: after an UpdateConfig without cluster B, a Pick for B
\* through the currently published ClusterPicker still succeeds with B's
\* last picker as long as B's removal timer has not fired.
C10_PickSucceedsUntilTimerFires ==
  \A n \in PendingRemoval :
    (/\ ~shutting_down_
     /\ channel # NoPublication
     /\ objs[children_[n]].pending
     /\ armed[children_[n]]
     /\ objs[children_[n]].picker_wrapper # NullPicker)
    => Pick(channel.picker, n) =
         [type |-> "Complete", cluster |-> n,
          picker |-> objs[children_[n]].picker_wrapper]

\* C10 amended: once an UpdateConfig has dropped cluster B, a Pick for B
\* through the currently published ClusterPicker fails with unknown-cluster,
\* already before B's removal timer fires and as long as B stays out of the
\* configuration.
C10_PickFailsOnceUnconfigured ==
  (crashed = "no" /\ channel # NoPublication)
    => \A n \in Names \ config_ :
         Pick(channel.picker, n) =
           [type |-> "Fail", cluster |-> n, picker |-> NullPicker]

C10_Witness ==
  \E n \in PendingRemoval :
    /\ ~shutting_down_
    /\ channel # NoPublication
    /\ objs[children_[n]].pending
    /\ armed[children_[n]]
    /\ objs[children_[n]].picker_wrapper # NullPicker
    /\ Pick(channel.picker, n).type = "Fail"

\* --------------------------------------------------- scheduling
\* The timer subsystem runs the closure of every pending timer once its
\* deadline has passed, and the work serializer runs every callback scheduled
\* on it (line 531).
TimerFairness ==
  /\ \A id \in 1..MaxObjs : WF_vars(TimerExpire(id) /\ UNCHANGED other_vars)
  /\ WF_vars(OnDelayedRemovalTimerLocked /\ UNCHANGED other_vars)

\* The children report READY or nothing; the build is any build.
ReadyReports == ReportsOf({READY})

FairNext ==
  \/ \E cfg \in ClusterMaps :
       UpdateLocked(cfg, [n \in cfg |-> NoReport]) /\ UNCHANGED other_vars
  \/ \E order \in Perms(Live(children_)) :
       ShutdownLocked(order) /\ UNCHANGED other_vars
  \/ \E id \in DOMAIN objs : \E r \in ReadyReports :
       HelperUpdateState(id, r) /\ UNCHANGED other_vars
  \/ \E id \in DOMAIN objs : TimerExpire(id) /\ UNCHANGED other_vars
  \/ OnDelayedRemovalTimerLocked /\ UNCHANGED other_vars
  \/ \E reports \in [Live(children_) -> ReadyReports \cup {NoReport}] :
       ExitIdleLocked(reports) /\ UNCHANGED other_vars
  \/ \E reports \in [Live(children_) -> ReadyReports \cup {NoReport}] :
       ResetBackoffLocked(reports) /\ UNCHANGED other_vars
  \/ TimerListLoops

FairSpec == AnyBuildInit /\ [][FairNext]_vars /\ TimerFairness

\* C11: a cluster that leaves the configuration and is not reintroduced is
\* eventually absent from the children map for good (under fairness of the
\* timer and of the work serializer), and no ClusterPicker published while it
\* is out of the configuration has it as a key.  A record the policy holds
\* when the process ends, or whose timer never expires, is not absent.
C11_RemovedClusterExpires ==
  /\ \A n \in Names :
       <>[](n \notin config_) => <>[](n \notin Live(children_))
  /\ [](\A n \in Names \ config_ :
          publications > 0 => n \notin DOMAIN channel.picker)

\* C12: a Pick whose routing attribute is a key of the ClusterPicker's map
\* returns exactly what the child picker of that key's entry returns: no
\* other entry answers, the result is passed on as it is, and the Pick does
\* not fail.
C12_PickDelegatesToEntry ==
  (last_pick # NoPick /\ last_pick.attr \in DOMAIN last_pick.cluster_map)
    => /\ last_pick.result =
            ChildPick(wrappers[last_pick.cluster_map[last_pick.attr]])
       /\ last_pick.result.cluster = last_pick.attr

\* C13: a Pick whose routing attribute is not a key of the ClusterPicker's
\* map fails with an error that names the cluster asked for, and the Pick
\* changes nothing of the router, its records, their wrappers or the pickers
\* the channel holds.
C13_UnknownClusterFails ==
  /\ []((last_pick # NoPick
          /\ last_pick.attr \notin DOMAIN last_pick.cluster_map)
        => last_pick.result = [type |-> "Fail", cluster |-> last_pick.attr,
                               picker |-> NullPicker])
  /\ [][last_pick' # NoPick
          => UNCHANGED <<config_, router_vars, wrappers, wrapper_of,
                         pickers_held, last_reported>>]_vars

\* C14: as long as the router has its records, the ClusterPicker published
\* last maps every cluster of the config whose record has received no picker
\* from its child to a queuing picker, and every other cluster of the config
\* to the picker its child reported last.
CurrentPicker == pickers_held[Len(pickers_held)]

C14_QueueUntilFirstPicker ==
  (pickers_held # <<>> /\ ~shutting_down_) =>
    /\ ConfigAlive(keys_of[Len(keys_of)], config_obj, kept_configs)
    /\ \A n \in config_ \cap DOMAIN last_reported :
         Pick(Deref(CurrentPicker, wrappers), n) =
           IF last_reported[n] = NullPicker
           THEN [type |-> "Queue", cluster |-> n, picker |-> QueuePicker]
           ELSE [type |-> "Complete", cluster |-> n,
                 picker |-> last_reported[n]]

C14_Witness ==
  /\ pickers_held # <<>>
  /\ ~shutting_down_
  /\ config_ = Names
  /\ last_reported[1] = NullPicker
  /\ Pick(Deref(CurrentPicker, wrappers), 1).type = "Queue"
  /\ last_reported[2] = 2
  /\ \E w \in DOMAIN wrappers : wrappers[w] = [name |-> 2, picker |-> 1]
  /\ Pick(Deref(CurrentPicker, wrappers), 2).picker = 2

\* C20: a ClusterPicker the channel holds never changes: in every step of a
\* running policy each one keeps its key set, with the strings its keys point
\* to, and, for every key, the result of its child picker.
Behaviour(cm, ws) == [n \in DOMAIN cm |-> ChildPick(ws[cm[n]])]

C20_PublishedPickersImmutable ==
  [][crashed' = "no" =>
       \A i \in DOMAIN pickers_held :
          /\ i \in DOMAIN pickers_held'
          /\ Behaviour(pickers_held'[i], wrappers') =
               Behaviour(pickers_held[i], wrappers)
          /\ ConfigAlive(keys_of[i], config_obj, kept_configs)
               => ConfigAlive(keys_of'[i], config_obj', kept_configs')]_vars

\* The removal of object id is scheduled: its timer is pending, or the
\* timer's closure waits in the work serializer.
RemovalScheduled(id, a, q) ==
  a[id] \/ \E i \in 1..Len(q) : q[i].child = id

\* C15: UpdateConfig(cfg) on a router that is not shut down leaves the
\* children map with the previous records and a record for every name of
\* cfg: every previous record whose name is not in cfg is pending removal
\* with its removal scheduled, and every name of cfg has a record that is not
\* pending removal and whose child policy exists and has been given the
\* update.
C15_UpdateConfigFrame ==
  [][\A cfg \in ClusterMaps : \A reports \in [cfg -> SyncReports] :
       (/\ ~shutting_down_
        /\ UpdateActs
        /\ cfg = config_' \/ crashed' # "no"
        /\ UpdateLocked(cfg, reports))
         => /\ Live(children_') = Live(children_) \cup cfg
            /\ \A n \in Live(children_) : children_'[n] = children_[n]
            /\ \A n \in Live(children_) \ cfg :
                 /\ objs'[children_'[n]].pending
                 /\ RemovalScheduled(children_'[n], armed', ws_queue')
            /\ \A n \in cfg :
                 /\ ~objs'[children_'[n]].pending
                 /\ objs'[children_'[n]].child_policy # 0]_vars

\* C16: once the router is shut down the children map is empty and stays
\* empty, every record constructed has lost its child policy and its cached
\* picker, no removal timer is pending any more, and a further Shutdown
\* changes nothing.
C16_ShutdownDestroysRecords ==
  /\ [](shutting_down_ =>
          /\ children_ = <<>>
          /\ \A id \in DOMAIN objs :
               /\ objs[id].child_policy = 0
               /\ objs[id].picker_wrapper = NullPicker
               /\ objs[id].shutdown
               /\ ~armed[id])
  /\ [][shutting_down_ => (shutting_down_' /\ children_' = <<>>)]_vars
  /\ [][\A order \in Perms(Live(children_)) :
          (shutting_down_ /\ ShutdownLocked(order))
            => UNCHANGED <<config_, children_, objs, armed, ws_queue,
                           channel>>]_vars

\* C17: after Shutdown no step creates a record or a child policy, records a
\* picker or a state in a record, or publishes to the channel; the children
\* map stays empty, so ExitIdle and ResetConnectionBackoff have no child to
\* forward to, and the process does not die.
C17_NoOpAfterShutdown ==
  /\ [](shutting_down_ =>
          /\ ForwardTargets(children_, objs) = <<>>
          /\ crashed = "no")
  /\ [][shutting_down_ =>
          /\ shutting_down_'
          /\ config_' = config_
          /\ children_' = children_
          /\ Len(objs') = Len(objs)
          /\ num_policies' = num_policies
          /\ channel' = channel
          /\ publications' = 0
          /\ \A id \in DOMAIN objs :
               \/ objs'[id] = FreedChild
               \/ /\ objs'[id].picker_wrapper = objs[id].picker_wrapper
                  /\ objs'[id].connectivity_state =
                       objs[id].connectivity_state
                  /\ objs'[id].child_policy = objs[id].child_policy]_vars

C17_Witness ==
  /\ shutting_down_
  /\ config_ = Names
  /\ Len(objs) = MaxObjs
  /\ channel.state = READY
  /\ \E id \in DOMAIN objs : objs[id].refs > 0

\* C18: a removal-timer callback that runs with a cancelled timer, for a
\* record that was reactivated (its pending flag is clear and its name is in
\* the config) or orphaned, or after the router was shut down, erases nothing
\* from the children map; and no record is released more often than it was
\* referenced or orphaned twice.
C18_TimerRacesAreNoOps ==
  /\ [][(/\ TimerCallbackStep
         /\ \/ Head(ws_queue).error = "CANCELLED"
            \/ objs[Head(ws_queue).child].shutdown
            \/ shutting_down_
            \/ /\ ~objs[Head(ws_queue).child].pending
               /\ objs[Head(ws_queue).child].name \in config_)
        => children_' = children_]_vars
  /\ [](\A id \in DOMAIN objs : objs[id].refs >= 0)
  /\ [](\A n \in Live(children_) : ~objs[children_[n]].shutdown)

\* The state an UpdateConfig with the current config leaves: every cluster
\* of the config has a record that is not pending removal, every other
\* record is pending removal, and the aggregate has just been published.
JustUpdated ==
  /\ crashed = "no" /\ ~shutting_down_
  /\ config_ # NullConfig
  /\ publications = 1
  /\ \A n \in config_ :
       /\ n \in Live(children_)
       /\ ~objs[children_[n]].pending
       /\ objs[children_[n]].child_policy # 0
  /\ \A n \in PendingRemoval : objs[children_[n]].pending

\* C19: an UpdateConfig that repeats the config just applied, with children
\* that report nothing new, leaves the children map, every record (pending
\* flag, visible state, cached picker, child policy), the timers and the
\* scheduled callbacks as they were, creates no record and no child policy,
\* and publishes the aggregate that was published before.
C19_RepeatedConfigIsIdempotent ==
  [][(/\ JustUpdated
      /\ config_' = config_ \/ crashed' # "no"
      /\ UpdateLocked(config_, [n \in config_ |-> NoReport]))
     => /\ children_' = children_
        /\ objs' = objs
        /\ armed' = armed
        /\ ws_queue' = ws_queue
        /\ num_policies' = num_policies
        /\ channel' = channel
        /\ publications' = 1
        /\ crashed' = "no"]_vars

C19_Witness ==
  /\ JustUpdated
  /\ DOMAIN reused = config_
  /\ \E n \in PendingRemoval : armed[children_[n]]
  /\ \E n \in config_ :
       /\ objs[children_[n]].picker_wrapper # NullPicker
       /\ objs[children_[n]].connectivity_state = TRANSIENT_FAILURE
  /\ UpdateStateLocked(FALSE, config_, children_, objs).pub = channel

\* The step is a report a child policy makes through its helper outside an
\* UpdateConfig.
HelperStep ==
  /\ crashed = "no"
  /\ child_calls' = <<>>
  /\ \E id \in DOMAIN objs : \E r \in Reports : HelperUpdateState(id, r)

\* The requests the policy forwards to its children.
ForwardOps == {"ExitIdleLocked", "ResetBackoffLocked"}

\* The step is an ExitIdle or a ResetConnectionBackoff that called a child.
ForwardStep ==
  /\ child_calls' # <<>>
  /\ child_calls'[1].op \in ForwardOps

\* C21: every report of a child received while no UpdateConfig is in
\* progress and the router is not shut down, also from a child pending
\* removal and also when it leaves the record's visible state as it was,
\* makes exactly one publication, of the aggregate recomputed after the
\* report; a publication is made by such a report (also one a child makes
\* while ExitIdle or ResetConnectionBackoff calls it) or by an UpdateConfig
\* only, and a removal-timer callback publishes nothing.
C21_ReportsPublishOnce ==
  /\ [][(HelperStep /\ ~shutting_down_ /\ ~update_in_progress_)
          => /\ crashed' = "no"
             /\ publications' = 1
             /\ channel' =
                  [state |-> AggregateState(config_', children_', objs'),
                   status |-> AggregateStatus(
                                AggregateState(config_', children_', objs')),
                   picker |-> ClusterMapOf(config_', children_', objs')]]_vars
  /\ [][TimerCallbackStep => (publications' = 0 /\ channel' = channel)]_vars
  /\ [][publications' > 0 => (ForwardStep \/ HelperStep \/ UpdateStep)]_vars

\* C22 as stated: after Shutdown the router holds no reference to a
\* configuration snapshot.
C22_ShutdownReleasesConfig ==
  shutting_down_ => config_ = NullConfig

\* C22 amended: Shutdown and every step after it leave the stored
\* configuration as it is: the router that is shut down still holds the
\* snapshot of the last UpdateConfig.
C22_ShutdownKeepsConfig ==
  [][shutting_down_' => config_' = config_]_vars

C22_Witness ==
  /\ shutting_down_
  /\ config_ # NullConfig
  /\ children_ = <<>>
  /\ ws_queue = <<>>
  /\ objs # <<>>
  /\ \A id \in DOMAIN objs : objs[id] = FreedChild
  /\ DOMAIN channel.picker = config_

\* What a fully processed UpdateConfig leaves: the records that are not
\* pending removal are those of the stored configuration, one for every name
\* of it, and every other record is marked pending removal.
FullyApplied ==
  /\ config_ \subseteq Live(children_)
  /\ {n \in Live(children_) : ~objs[children_[n]].pending} = config_
  /\ \A n \in Live(children_) \ config_ : objs[children_[n]].pending

\* C23: a recomputation triggered by the report of a child (a call of
\* UpdateStateLocked that gets past its update-in-progress guard) finds the
\* stored configuration, the records that are not pending removal and the
\* pending-removal marks as one fully processed UpdateConfig left them; and
\* the update-in-progress flag is false whenever no UpdateConfig is
\* executing.
C23_NoHalfAppliedUpdate ==
  /\ [][(HelperStep /\ ~shutting_down_ /\ ~update_in_progress_)
          => FullyApplied]_vars
  /\ [](~update_in_progress_)

\* C24: Deactivate on a record that is already pending removal changes
\* nothing (no second timer is armed); Deactivate on any other record of the
\* children map sets its pending flag and arms its removal timer, which was
\* not pending, exactly once (one reference taken for it), and leaves the
\* record's child policy, visible state and cached picker, every other
\* record and the scheduled callbacks as they were.
C24_DeactivateFrame ==
  (crashed = "no" /\ ~shutting_down_) =>
    \A n \in Live(children_) :
      \E id \in {children_[n]} :
      \E m \in {Mem(objs, armed, ws_queue, num_policies, unlinked)} :
      \A reinit \in ReinitOutcomes :
      \E d \in {DeactivateLocked(m, id, reinit)} :
         IF objs[id].pending
         THEN d = m
         ELSE /\ ~d.dead
              /\ d.objs = [objs EXCEPT ![id].pending = TRUE,
                                       ![id].refs = @ + 1]
              /\ ~armed[id]
              /\ d.armed = [armed EXCEPT ![id] = TRUE]
              /\ d.q = ws_queue
              /\ d.np = num_policies

\* The removal of the record of object id is pending: its flag is set or its
\* removal timer is pending.
RemovalPending(id) == objs[id].pending \/ armed[id]

\* C25: ChildRecord.Update on a record pending removal clears the flag and
\* cancels the timer (the timer is no longer pending and its callback is
\* scheduled as cancelled); on a record with a child policy it creates none
\* and keeps that instance; an UpdateConfig that completes creates exactly one
\* child policy for each record it creates, none for the records it found,
\* leaves every record of the config with its one instance and without
\* pending flag, and forwards exactly one update to the instance of each.
C25_UpdateReactivatesCreatesOnce ==
  /\ [](crashed = "no" =>
          \A n \in Live(children_) :
             \E id \in {children_[n]} :
             \E m \in {Mem(objs, armed, ws_queue, num_policies, unlinked)} :
             \E u \in {ChildUpdateLocked(m, id, NoReport, FALSE)} :
                /\ ~u.objs[id].pending
                /\ RemovalPending(id) =>
                     /\ ~u.armed[id]
                     /\ u.q = IF armed[id]
                              THEN Append(ws_queue,
                                          TimerClosure(id, "CANCELLED"))
                              ELSE ws_queue
                /\ objs[id].child_policy # 0 =>
                     /\ u.objs[id].child_policy = objs[id].child_policy
                     /\ u.np = num_policies
                     /\ u.objs[id].refs = objs[id].refs)
  /\ [][(publications' = 1 /\ crashed' = "no" /\ child_calls' # <<>>
          /\ child_calls'[1].op = "UpdateLocked")
          => /\ num_policies' =
                  num_policies + Cardinality(config_' \ Live(children_))
             /\ Len(child_calls') = Cardinality(config_')
             /\ \A n \in config_' :
                  /\ ~objs'[children_'[n]].pending
                  /\ Cardinality({i \in DOMAIN child_calls' :
                         child_calls'[i].policy =
                           objs'[children_'[n]].child_policy}) = 1
                  /\ IF n \in Live(children_)
                     THEN /\ children_'[n] = children_[n]
                          /\ objs'[children_'[n]].child_policy =
                               objs[children_[n]].child_policy
                     ELSE /\ children_'[n] > Len(objs)
                          /\ objs'[children_'[n]].child_policy
                               > num_policies
             /\ \A n1, n2 \in Live(children_') :
                  n1 # n2 => objs'[children_'[n1]].child_policy
                               # objs'[children_'[n2]].child_policy]_vars

\* C26: the callback of a removal timer that fired (no error) on a record
\* that is not shut down takes that record out of the children map and
\* destroys its child policy, and changes nothing else: the configuration,
\* every other record, the timers, the other scheduled callbacks and the last
\* publication stay as they were, and nothing is published.
C26_TimerFiringFrame ==
  [][(/\ TimerCallbackStep
      /\ Head(ws_queue).error = "NONE"
      /\ ~objs[Head(ws_queue).child].shutdown)
     => \E id \in {Head(ws_queue).child} :
        \E name \in {objs[id].name} :
          /\ name \in Live(children_)
          /\ children_[name] = id
          /\ Live(children_') = Live(children_) \ {name}
          /\ \A n \in Live(children_') : children_'[n] = children_[n]
          /\ objs'[id].child_policy = 0
          /\ objs'[id].picker_wrapper = NullPicker
          /\ objs'[id].shutdown
          /\ Len(objs') = Len(objs)
          /\ \A j \in DOMAIN objs \ {id} : objs'[j] = objs[j]
          /\ armed' = armed
          /\ ws_queue' = Tail(ws_queue)
          /\ config_' = config_
          /\ channel' = channel
          /\ publications' = 0
          /\ num_policies' = num_policies
          /\ shutting_down_' = shutting_down_]_vars

\* A record was erased by its timer while the record of the configured
\* cluster and the READY aggregate published before stayed.
C26_Witness ==
  /\ crashed = "no" /\ ~shutting_down_
  /\ \E id \in DOMAIN objs : objs[id] = FreedChild
  /\ \E n \in config_ :
       /\ n \in Live(children_)
       /\ ~objs[children_[n]].pending
       /\ objs[children_[n]].connectivity_state = READY
  /\ publications = 0
  /\ child_calls = <<>>
  /\ ws_queue = <<>>
  /\ channel.state = READY
  /\ config_ \subseteq Live(children_)

\* C27 as stated: when a child reports TRANSIENT_FAILURE, then a state X
\* other than READY, then a state Y other than READY, only X is masked:
\* after the report of Y the record's visible state is Y.
C27_LatchSpansOneHop ==
  \A k \in 1..(Len(child_log) - 2) :
    (/\ child_log[k].state = TRANSIENT_FAILURE
     /\ child_log[k + 1].state # READY
     /\ child_log[k + 2].state # READY)
    => /\ child_log[k + 1].visible = TRANSIENT_FAILURE
       /\ child_log[k + 2].visible = child_log[k + 2].state

\* C27 amended: the latch is cumulative: after a report of
\* TRANSIENT_FAILURE the record's visible state stays TRANSIENT_FAILURE over
\* any number of reports of states other than READY, and the first READY
\* report becomes the visible state.
C27_LatchIsCumulative ==
  \A i \in DOMAIN child_log : \A j \in DOMAIN child_log :
    (/\ i < j
     /\ child_log[i].state = TRANSIENT_FAILURE
     /\ \A k \in (i + 1)..(j - 1) : child_log[k].state # READY)
    => child_log[j].visible =
         IF child_log[j].state = READY THEN READY ELSE TRANSIENT_FAILURE

\* The child reported TRANSIENT_FAILURE, then CONNECTING, then IDLE, and the
\* aggregate published after the third report is TRANSIENT_FAILURE.
C27_Witness ==
  /\ Len(child_log) >= 3
  /\ child_log[1].state = TRANSIENT_FAILURE
  /\ child_log[2].state = CONNECTING
  /\ child_log[3].state = IDLE
  /\ child_log[3].visible = TRANSIENT_FAILURE
  /\ child_log[3].published = 1
  /\ Len(child_log) = 3 => channel.state = TRANSIENT_FAILURE

\* The visible state of the followed record before its k-th report.
VisibleBefore(k) == IF k = 1 THEN IDLE ELSE child_log[k - 1].visible

\* C28: every report replaces the record's cached picker by the reported
\* one, also when the reported state is masked and also when the report is
\* made while an UpdateConfig is in progress; the state rule is applied to
\* such a report as to any other; a report made during an update publishes
\* nothing; and the publication that ends the update carries the picker and
\* the visible state the last report left.
C28_PickerAlwaysRecorded ==
  /\ \A k \in DOMAIN child_log :
       /\ child_log[k].cached = child_log[k].picker
       /\ child_log[k].visible =
            Latched(VisibleBefore(k), child_log[k].state)
       /\ child_log[k].in_update => child_log[k].published = 0
  /\ (crashed = "no" /\ child_log # <<>> /\ ~update_in_progress_)
       => /\ channel # NoPublication
          /\ DOMAIN channel.picker = config_
          /\ \A n \in config_ :
               channel.picker[n].picker = child_log[Len(child_log)].picker
          /\ channel.state = child_log[Len(child_log)].visible

\* The child reported during an update a state that was masked, with a
\* picker other than the cached one, and the update has published.
C28_Witness ==
  /\ Len(child_log) >= 2
  /\ \E k \in {Len(child_log)} :
       /\ child_log[k].in_update
       /\ child_log[k].state = CONNECTING
       /\ child_log[k].visible = TRANSIENT_FAILURE
       /\ child_log[k].picker # child_log[k - 1].cached
       /\ ~update_in_progress_
       /\ publications = 1
       /\ channel.state = TRANSIENT_FAILURE
       /\ \A n \in config_ : channel.picker[n].picker = child_log[k].picker

\* The calls op makes when it reaches the child policy of every record of the
\* children map once, in map order.
CallsToAll(op) ==
  [i \in 1..Cardinality(Live(children_)) |->
     ChildCall(op, objs[children_[SortedSeq(Live(children_))[i]]].child_policy)]

Reactivated == {n \in Live(children_) : n \in config_' /\ n \notin config_}

\* C30: a record reactivated by an UpdateConfig is the record it was, with the
\* visible state and the cached picker it had while pending removal (changed,
\* if at all, only by a report its child makes during the update, under the
\* rules for reports): it is not reset to IDLE or to no picker; and the
\* publication that ends the update has the record's picker under its name
\* and counts its visible state.
C30_ReactivationKeepsState ==
  [][(crashed' = "no" /\ config_' # config_)
       => \A n \in Reactivated :
            /\ n \in Live(children_')
            /\ children_'[n] = children_[n]
            /\ \E o \in {objs[children_[n]]} :
               \E r \in SyncReports :
                  /\ objs'[children_'[n]].connectivity_state =
                       ApplyReport(o, r).connectivity_state
                  /\ objs'[children_'[n]].picker_wrapper =
                       ApplyReport(o, r).picker_wrapper
                  /\ objs'[children_'[n]].child_policy = o.child_policy
            /\ publications' = 1
            /\ n \in DOMAIN channel'.picker
            /\ channel'.picker[n].picker =
                 IF objs'[children_'[n]].picker_wrapper = NullPicker
                 THEN QueuePicker ELSE objs'[children_'[n]].picker_wrapper
            /\ config_' = {n} =>
                 channel'.state = objs'[children_'[n]].connectivity_state]_vars

\* The only record of the config was reactivated while its timer was pending
\* (the cancelled callback is queued); it shows the latched
\* TRANSIENT_FAILURE and the picker it had, and the aggregate published is
\* TRANSIENT_FAILURE with that picker.
C30_Witness ==
  /\ crashed = "no" /\ ~shutting_down_
  /\ publications = 1
  /\ \E n \in config_ :
       /\ config_ = {n}
       /\ PendingRemoval # {}
       /\ ~objs[children_[n]].pending
       /\ \E i \in 1..Len(ws_queue) :
            ws_queue[i] = TimerClosure(children_[n], "CANCELLED")
       /\ objs[children_[n]].connectivity_state = TRANSIENT_FAILURE
       /\ objs[children_[n]].picker_wrapper # NullPicker
       /\ channel.state = TRANSIENT_FAILURE
       /\ channel.picker[n].picker = objs[children_[n]].picker_wrapper

\* C33: for every record of the children map the pending flag is set exactly
\* while a removal timer armed for it has neither run its callback nor been
\* cancelled: a record whose timer is pending has the flag set (so the
\* callback of an earlier, cancelled timer has not cleared it), and a record
\* with the flag set has its timer pending or the callback of its expired
\* timer waiting to run.
C33_FlagTracksTimer ==
  crashed = "no" =>
    \A n \in Live(children_) :
      \E id \in {children_[n]} :
        /\ armed[id] => objs[id].pending
        /\ objs[id].pending =>
             (armed[id] \/ \E i \in 1..Len(ws_queue) :
                              ws_queue[i] = TimerClosure(id, "NONE"))

\* C34: no step arms the removal timer of a record while that timer is
\* still pending: grpc_timer_init is never called on a timer that has not
\* fired and has not been cancelled.
C34_TimerNeverRearmed ==
  [][crashed' # "timer"]_vars

\* C35: between the steps of a router that is not shut down, a record of the
\* children map is pending removal (its flag is set and its removal is
\* scheduled) if and only if its name is absent from the configuration.
C35_PendingIffUnconfigured ==
  (crashed = "no" /\ ~shutting_down_ /\ ~update_in_progress_) =>
    \A n \in Live(children_) :
      (n \notin config_)
        <=> (/\ objs[children_[n]].pending
             /\ RemovalScheduled(children_[n], armed, ws_queue))


\* C37: a record whose child has not reported yet (it has no picker) shows
\* IDLE; and the first UpdateLocked of a policy, when no child reports while
\* the update is forwarded to it, publishes IDLE with status OK and a picker
\* that queues the picks of every cluster of the configuration.
C37_UnreportedCountsIdle ==
  [][/\ crashed' = "no" =>
          \A n \in Live(children_') :
             objs'[children_'[n]].picker_wrapper = NullPicker
                => objs'[children_'[n]].connectivity_state = IDLE
     /\ (crashed = "no" /\ config_ = NullConfig /\ children_ = <<>>
           /\ ~shutting_down_) =>
          \A cfg \in ClusterMaps :
             UpdateLocked(cfg, [n \in cfg |-> NoReport]) =>
               /\ publications' = 1
               /\ channel' =
                    [state |-> IDLE, status |-> "OK",
                     picker |-> [n \in cfg |->
                                   [name |-> n, picker |-> QueuePicker]]]]_vars

C37_Witness ==
  /\ crashed = "no"
  /\ config_ = Names
  /\ reused = <<>>
  /\ Len(objs) = NumClusters
  /\ publications = 1
  /\ channel.state = IDLE
  /\ channel.status = "OK"
  /\ \A n \in config_ : channel.picker[n].picker = QueuePicker


\* C38: every entry of the children map holds a record with a child policy,
\* so that ExitIdleLocked, ResetBackoffLocked and Orphan never call through a
\* null pointer; and no step puts an entry into the map without a record
\* whose child policy was created in that step: the only step that adds
\* entries is UpdateLocked, and no handler dies on a null entry that
\* children_[cluster_name] (line 368) inserted.
C38_EntriesHavePolicy ==
  [][/\ crashed' # "nullderef"
     /\ crashed' = "no" =>
          /\ \A n \in DOMAIN children_' :
               /\ children_'[n] # NullChild
               /\ objs'[children_'[n]].child_policy # 0
          /\ \A n \in DOMAIN children_' \ DOMAIN children_ :
               /\ n \in config_'
               /\ publications' = 1
               /\ objs'[children_'[n]].child_policy > num_policies]_vars


\* The callbacks of the removal timer of an object that have not run yet: its
\* pending timer and its closures in the work serializer's queue.
Outstanding(id, a, q) ==
  (IF a[id] THEN 1 ELSE 0)
    + Cardinality({i \in 1..Len(q) : q[i].child = id})

\* The references of an object that are not held for a timer callback: the
\* map entry's and the Helper's.
OwnerRefs(id, ch, os) ==
  (IF \E n \in Live(ch) : ch[n] = id THEN 1 ELSE 0)
    + (IF os[id].child_policy # 0 THEN 1 ELSE 0)

\* C39: every outstanding callback of a removal timer holds exactly one
\* reference of its ClusterChild: the reference count of an object is never
\* negative and is the number of its owners (the map entry, the Helper) plus
\* the number of its outstanding callbacks, so that an object is not freed
\* while a callback is outstanding; and no timer is armed again while its
\* callback is outstanding, which would take a second reference for one
\* callback.
C39_TimerRefBalance ==
  [][/\ crashed' # "timer"
     /\ crashed' = "no" =>
          \A id \in DOMAIN objs' :
             /\ objs'[id].refs >= 0
             /\ objs'[id].refs >= Outstanding(id, armed', ws_queue')
             /\ objs'[id].refs = OwnerRefs(id, children_', objs')
                                   + Outstanding(id, armed', ws_queue')]_vars


\* ------------------------------------------------- any state value
\* The reports the signature of Helper::UpdateState admits: the state is any
\* grpc_connectivity_state, GRPC_CHANNEL_SHUTDOWN included.  Neither the
\* helper nor the record filters the value (lines 583-587).
AnyReports == ReportsOf(ConnectivityStates)

\* Updates and child reports with children that may pass any state value,
\* while an update is forwarded to them or on their own.
AnyStateNext ==
  \/ \E cfg \in ClusterMaps :
       \E reports \in [cfg -> AnyReports \cup {NoReport}] :
          UpdateLocked(cfg, reports) /\ UNCHANGED other_vars
  \/ \E id \in DOMAIN objs : \E r \in AnyReports :
       HelperUpdateState(id, r) /\ UNCHANGED other_vars

AnyStateSpec == Init /\ [][AnyStateNext]_vars

\* C36: whatever state value the children pass to Helper::UpdateState, the
\* state a record shows is READY, CONNECTING, IDLE or TRANSIENT_FAILURE, and
\* UpdateStateLocked never reaches the default branch of its switch (line
\* 347).
C36_StateAlwaysCounted ==
  [][/\ crashed' # "abort"
     /\ crashed' = "no" =>
          \A n \in Live(children_') :
             objs'[children_'[n]].connectivity_state \in ContractStates]_vars


\* ------------------------------------------------- Helper requests
\* The requests a child policy makes of the channel through its Helper
\* (lines 550-615).  helper_call keeps the last request: its arguments, what
\* reached the channel's helper (forwarded) and what the child got back.
NumAddresses == 2
NumChannelArgs == 2
NumMessages == 2

Addresses == 1..NumAddresses
ChannelArgsValues == 1..NumChannelArgs
Severities == {"TRACE_INFO", "TRACE_WARNING", "TRACE_ERROR"}
Messages == 1..NumMessages

NotForwarded == <<>>
NullSubchannel == [address |-> 0, args |-> 0]

\* The subchannel the channel's helper creates for an address and channel
\* args (the callee of lines 556-558), and the authority it names (the callee
\* of lines 602-604).
ChannelCreateSubchannel(address, args) == [address |-> address, args |-> args]
ChannelAuthority == "authority"

\* The request is passed on whatever the state of the policy.
ForwardsAlways(shutting_down) == TRUE

\* Lines 553, 593, 609: a request is passed on unless the policy is shutting
\* down.
Forwards(shutting_down) == ~shutting_down

\* The child policy of object id makes a request through its Helper; a
\* policy that ShutdownLocked orphaned may still have one under way.
HelperCalled(id) ==
  /\ crashed = "no"
  /\ id \in DOMAIN objs
  /\ objs[id].child_policy # 0 \/ shutting_down_
  /\ UNCHANGED <<router_vars, config_, picker_vars, config_vars, child_log,
                 parser_vars, timer_vars>>

\* Helper::CreateSubchannel, lines 550-559.
CreateSubchannel(id, address, args) ==
  /\ HelperCalled(id)
  /\ helper_call' =
       IF Forwards(shutting_down_)
       THEN [op |-> "CreateSubchannel", args |-> <<address, args>>,
             forwarded |-> <<address, args>>,
             result |-> ChannelCreateSubchannel(address, args)]
       ELSE [op |-> "CreateSubchannel", args |-> <<address, args>>,
             forwarded |-> NotForwarded, result |-> NullSubchannel]

\* Helper::RequestReresolution, lines 592-599.
RequestReresolution(id) ==
  /\ HelperCalled(id)
  /\ helper_call' =
       [op |-> "RequestReresolution", args |-> <<"reresolve">>,
        forwarded |-> IF Forwards(shutting_down_) THEN <<"reresolve">>
                      ELSE NotForwarded]

\* Helper::GetAuthority, lines 601-605: passed on without a look at
\* shutting_down_.
GetAuthority(id) ==
  /\ HelperCalled(id)
  /\ helper_call' =
       [op |-> "GetAuthority", args |-> <<"authority?">>,
        forwarded |-> <<"authority?">>, result |-> ChannelAuthority]

\* Helper::AddTraceEvent, lines 607-615.
AddTraceEvent(id, severity, message) ==
  /\ HelperCalled(id)
  /\ helper_call' =
       [op |-> "AddTraceEvent", args |-> <<severity, message>>,
        forwarded |-> IF Forwards(shutting_down_) THEN <<severity, message>>
                      ELSE NotForwarded]

\* Updates, shutdown, and the requests of the children in between.
HelperNext ==
  \/ \E cfg \in ClusterMaps :
       UpdateLocked(cfg, [n \in cfg |-> NoReport])
         /\ UNCHANGED other_vars
  \/ \E order \in Perms(Live(children_)) :
       ShutdownLocked(order) /\ UNCHANGED other_vars
  \/ \E id \in DOMAIN objs : \E address \in Addresses :
       \E args \in ChannelArgsValues : CreateSubchannel(id, address, args)
  \/ \E id \in DOMAIN objs : RequestReresolution(id)
  \/ \E id \in DOMAIN objs : GetAuthority(id)
  \/ \E id \in DOMAIN objs : \E severity \in Severities :
       \E message \in Messages : AddTraceEvent(id, severity, message)

HelperSpec == Init /\ [][HelperNext]_vars

\* The requests the Helper guards with shutting_down_.
GuardedRequests == {"CreateSubchannel", "RequestReresolution", "AddTraceEvent"}

\* C40: a CreateSubchannel, RequestReresolution or AddTraceEvent request made
\* after ShutdownLocked does not reach the channel's helper, and
\* CreateSubchannel returns no subchannel; before shutdown the request
\* reaches the channel's helper with the arguments the child gave, and
\* CreateSubchannel returns the subchannel the channel created.
C40_RequestsDroppedAfterShutdown ==
  [][(helper_call' # helper_call /\ helper_call'.op \in GuardedRequests) =>
       IF shutting_down_
       THEN /\ helper_call'.forwarded = NotForwarded
            /\ helper_call'.op = "CreateSubchannel"
                 => helper_call'.result = NullSubchannel
       ELSE /\ helper_call'.forwarded = helper_call'.args
            /\ helper_call'.op = "CreateSubchannel"
                 => helper_call'.result =
                      ChannelCreateSubchannel(helper_call'.args[1],
                                              helper_call'.args[2])]_vars

C40_Witness ==
  /\ shutting_down_
  /\ helper_call.op = "CreateSubchannel"
  /\ helper_call.forwarded = NotForwarded
  /\ helper_call.result = NullSubchannel
  /\ objs # <<>>


\* ------------------------------------------------- the factory's parser
\* XdsClusterManagerLbFactory::ParseLoadBalancingConfig (lines 630-675) and
\* ParseChildConfig (lines 678-703).  A JSON value is followed as far as the
\* parser looks into it: the value given is null or an object; its children
\* member is absent, not an object, or an object whose keys are cluster names
\* (the empty name among them); the value of a key is not an object, or an
\* object whose childPolicy is absent, rejected by the policy registry, or
\* accepted by it.
EmptyName == 0

KeyNames == {EmptyName} \cup Names

ChildPolicies == {"ABSENT", "INVALID", "VALID"}

ChildValues ==
  {[type |-> "STRING"]}
    \cup {[type |-> "OBJECT", childPolicy |-> c] : c \in ChildPolicies}

ChildrenObjects == UNION {[S -> ChildValues] : S \in SUBSET KeyNames}

ChildrenValues ==
  {[type |-> "ABSENT"], [type |-> "STRING"]}
    \cup {[type |-> "OBJECT", members |-> f] : f \in ChildrenObjects}

JsonInputs ==
  {[type |-> "JSON_NULL"]}
    \cup {[type |-> "OBJECT", children |-> c] : c \in ChildrenValues}

\* The result of the registry's ParseLoadBalancingConfig on a childPolicy
\* value (lines 689-691).
RegistryParse(childPolicy) ==
  IF childPolicy = "VALID" THEN [ok |-> TRUE]
  ELSE [ok |-> FALSE, message |-> "registry error"]

\* ParseChildConfig, lines 678-703.  A message built by StrCat or StrJoin is
\* the sequence of its parts.
ParseChildConfig(value) ==
  IF value.type # "OBJECT"
  THEN [ok |-> FALSE, message |-> <<"value should be of type object">>]
  ELSE IF value.childPolicy = "ABSENT"
  THEN [ok |-> FALSE, message |-> <<"did not find childPolicy">>]
  ELSE IF ~RegistryParse(value.childPolicy).ok
  THEN [ok |-> FALSE,
        message |-> <<"field:childPolicy error:",
                      RegistryParse(value.childPolicy).message>>]
  ELSE [ok |-> TRUE]

\* The items of the errors vector (lines 635-638, 645, 647, 652, 657-659,
\* 667).
RequiresConfiguration ==
  [field |-> "loadBalancingPolicy", error |-> <<"requires configuration">>]
ChildrenNotPresent ==
  [field |-> "children", error |-> <<"required field not present">>]
ChildrenNotObject ==
  [field |-> "children", error |-> <<"type should be object">>]
EmptyNameError ==
  [field |-> "children", error |-> <<"name cannot be empty">>]
ChildError(child_name, message) ==
  [field |-> "children", name |-> child_name, error |-> message]
NoValidChildrenError ==
  [field |-> "none", error |-> <<"no valid children configured">>]

RECURSIVE ParseEntriesFailFast(_, _, _)
\* The loop stops at the first entry that adds an error.
ParseEntriesFailFast(names, members, acc) ==
  IF names = <<>> \/ acc.errors # <<>> THEN acc
  ELSE LET child_name == Head(names)
           config == ParseChildConfig(members[child_name])
       IN ParseEntriesFailFast(
            Tail(names), members,
            IF child_name = EmptyName
            THEN [acc EXCEPT !.errors = Append(@, EmptyNameError)]
            ELSE IF ~config.ok
            THEN [acc EXCEPT !.errors =
                               Append(@, ChildError(child_name,
                                                    config.message))]
            ELSE [acc EXCEPT !.cluster_map = @ \cup {child_name}])

RECURSIVE ParseEntries(_, _, _)
\* Lines 648-663: the entries of children in the order of their names.
ParseEntries(names, members, acc) ==
  IF names = <<>> THEN acc
  ELSE LET child_name == Head(names)
           config == ParseChildConfig(members[child_name])
       IN ParseEntries(
            Tail(names), members,
            IF child_name = EmptyName
            THEN [acc EXCEPT !.errors = Append(@, EmptyNameError)]
            ELSE IF ~config.ok
            THEN [acc EXCEPT !.errors =
                               Append(@, ChildError(child_name,
                                                    config.message))]
            ELSE [acc EXCEPT !.cluster_map = @ \cup {child_name}])

\* An empty cluster map is let through.
NoValidChildrenNever(cluster_map) == FALSE

\* Line 666.
NoValidChildren(cluster_map) == cluster_map = {}

\* ParseLoadBalancingConfig, lines 630-675: an InvalidArgumentError whose
\* message joins the items, or a config with the cluster map.
ParseLoadBalancingConfig(value) ==
  IF value.type = "JSON_NULL"
  THEN [kind |-> "error", items |-> <<RequiresConfiguration>>]
  ELSE LET acc0 == [errors |-> <<>>, cluster_map |-> {}]
           acc1 == IF value.children.type = "ABSENT"
                   THEN [acc0 EXCEPT !.errors = <<ChildrenNotPresent>>]
                   ELSE IF value.children.type # "OBJECT"
                   THEN [acc0 EXCEPT !.errors = <<ChildrenNotObject>>]
                   ELSE ParseEntries(
                          SortedSeq(DOMAIN value.children.members),
                          value.children.members, acc0)
           errors == IF NoValidChildren(acc1.cluster_map)
                     THEN Append(acc1.errors, NoValidChildrenError)
                     ELSE acc1.errors
       IN IF errors # <<>>
          THEN [kind |-> "error", items |-> errors]
          ELSE [kind |-> "config", cluster_map |-> acc1.cluster_map]

\* The parser is given a value.
ParserInit ==
  /\ config_ = NullConfig
  /\ shutting_down_ = FALSE
  /\ update_in_progress_ = FALSE
  /\ children_ = <<>>
  /\ objs = <<>>
  /\ num_policies = 0
  /\ armed = <<>>
  /\ ws_queue = <<>>
  /\ channel = NoPublication
  /\ publications = 0
  /\ reused = <<>>
  /\ crashed = "no"
  /\ child_calls = <<>>
  /\ unlinked = {}
  /\ wrappers = <<>>
  /\ wrapper_of = <<>>
  /\ pickers_held = <<>>
  /\ last_reported = <<>>
  /\ last_pick = NoPick
  /\ child_log = <<>>
  /\ helper_call = NoCall
  /\ json \in JsonInputs
  /\ parsed = NotParsed
  /\ timer_checks = TRUE
  /\ list_stuck = FALSE
  /\ config_obj = 0
  /\ kept_configs = {}
  /\ keys_of = <<>>

\* The factory parses the value.
Parses ==
  /\ parsed = NotParsed
  /\ parsed' = ParseLoadBalancingConfig(json)
  /\ UNCHANGED <<router_vars, config_, picker_vars, config_vars, child_log,
                 helper_call, json, timer_vars>>

\* The config the parser returned is handed to the policy (UpdateLocked,
\* line 284); an error is not.
UpdateWithParsed ==
  /\ parsed.kind = "config"
  /\ UpdateLocked(parsed.cluster_map, [n \in parsed.cluster_map |-> NoReport])
  /\ UNCHANGED other_vars

ParserNext == Parses \/ UpdateWithParsed

ParserSpec == ParserInit /\ [][ParserNext]_vars

\* The entries of a children object with an empty name, a value that is not
\* an object, or a childPolicy that is missing or that the registry rejects.
Offending(members) ==
  {n \in DOMAIN members :
     \/ n = EmptyName
     \/ members[n].type # "OBJECT"
     \/ members[n].childPolicy \in {"ABSENT", "INVALID"}}

\* C31: ParseLoadBalancingConfig returns a config only for an object whose
\* children member is present, is an object, has no empty name and has only
\* entries that parse; the cluster map of the config is then the non-empty
\* set of the children's names, without the empty name; for every other
\* value it returns an error and no config, and the policy is handed nothing.
C31_OnlyValidConfigs ==
  parsed # NotParsed =>
    /\ parsed.kind \in {"config", "error"}
    /\ parsed.kind = "config" =>
         /\ json.type = "OBJECT"
         /\ json.children.type = "OBJECT"
         /\ EmptyName \notin DOMAIN json.children.members
         /\ Offending(json.children.members) = {}
         /\ parsed.cluster_map = DOMAIN json.children.members
         /\ parsed.cluster_map # {}
         /\ EmptyName \notin parsed.cluster_map
         /\ config_ \in {NullConfig, parsed.cluster_map}
    /\ parsed.kind = "error" =>
         /\ DOMAIN parsed = {"kind", "items"}
         /\ parsed.items # <<>>
         /\ config_ = NullConfig
         /\ \/ json.type # "OBJECT"
            \/ json.children.type # "OBJECT"
            \/ Offending(json.children.members) # {}
            \/ json.children.members = <<>>

C31_Witness ==
  /\ parsed.kind = "config"
  /\ parsed.cluster_map = Names
  /\ config_ = Names
  /\ publications = 1

\* The items of an error that are about the entry of the given name.
ItemsAbout(items, n) ==
  {i \in DOMAIN items :
     IF n = EmptyName THEN items[i] = EmptyNameError
     ELSE "name" \in DOMAIN items[i] /\ items[i].name = n}

\* C32: for a children object with malformed entries the parser returns one
\* error, and the items of its message include exactly one item for each
\* offending entry, which says what is wrong with it: the name is empty, the
\* value is not an object, the childPolicy is missing, or the registry
\* rejected it; no item is about an entry that parsed.
C32_EveryOffenderReported ==
  (parsed # NotParsed /\ json.type = "OBJECT"
     /\ json.children.type = "OBJECT") =>
    \E members \in {json.children.members} :
      /\ Offending(members) # {} => parsed.kind = "error"
      /\ parsed.kind = "error" =>
           \A n \in DOMAIN members :
              /\ Cardinality(ItemsAbout(parsed.items, n))
                   = IF n \in Offending(members) THEN 1 ELSE 0
              /\ (n \in Offending(members) /\ n # EmptyName) =>
                   \A i \in ItemsAbout(parsed.items, n) :
                      parsed.items[i].error[1] =
                        IF members[n].type # "OBJECT"
                        THEN "value should be of type object"
                        ELSE IF members[n].childPolicy = "ABSENT"
                        THEN "did not find childPolicy"
                        ELSE "field:childPolicy error:"

C32_Witness ==
  /\ parsed.kind = "error"
  /\ json.type = "OBJECT"
  /\ json.children.type = "OBJECT"
  /\ Offending(json.children.members) = KeyNames
  /\ Len(parsed.items) = Cardinality(KeyNames) + 1
  /\ \E n \in Names : json.children.members[n].type # "OBJECT"
  /\ \E n \in Names : /\ json.children.members[n].type = "OBJECT"
                      /\ json.children.members[n].childPolicy = "INVALID"
====
